---- MODULE Spec2Model ----
(***************************************************************************)
(* A model of the LeetCode patterns aggregator: the scraping pipeline of   *)
(* src/aggregator/aggregator.py (scrape_patterns and the helpers it        *)
(* calls), the summarizer of src/aggregator/gemini.py, the run of          *)
(* src/main.py and the tab writer of src/sheet/sheet_populator.py.         *)
(*                                                                         *)
(* Representation.  A Python str is a TLA+ string; its characters are read *)
(* with SubSeq and strings are joined with \o.  A Python list is a         *)
(* sequence.  A Python dict is a function whose domain is the set of keys  *)
(* present; d.get(k) of an absent key and a null or empty value are all    *)
(* falsy and are read alike (GetStr gives "", GetList gives << >>).  The   *)
(* dicts of the model carry string values under their string-valued keys   *)
(* and lists of dicts under problems / questions.                          *)
(***************************************************************************)
EXTENDS Integers, Sequences, FiniteSets, TLC

(***************************************************************************)
(* Strings                                                                 *)
(***************************************************************************)

Ch(s, i) == SubSeq(s, i, i)

Min(a, b) == IF a <= b THEN a ELSE b

UpperChars ==
    {"A", "B", "C", "D", "E", "F", "G", "H", "I", "J", "K", "L", "M",
     "N", "O", "P", "Q", "R", "S", "T", "U", "V", "W", "X", "Y", "Z"}

ToLower ==
    "A" :> "a" @@ "B" :> "b" @@ "C" :> "c" @@ "D" :> "d" @@ "E" :> "e" @@
    "F" :> "f" @@ "G" :> "g" @@ "H" :> "h" @@ "I" :> "i" @@ "J" :> "j" @@
    "K" :> "k" @@ "L" :> "l" @@ "M" :> "m" @@ "N" :> "n" @@ "O" :> "o" @@
    "P" :> "p" @@ "Q" :> "q" @@ "R" :> "r" @@ "S" :> "s" @@ "T" :> "t" @@
    "U" :> "u" @@ "V" :> "v" @@ "W" :> "w" @@ "X" :> "x" @@ "Y" :> "y" @@
    "Z" :> "z"

SlugChars ==
    {"a", "b", "c", "d", "e", "f", "g", "h", "i", "j", "k", "l", "m",
     "n", "o", "p", "q", "r", "s", "t", "u", "v", "w", "x", "y", "z",
     "0", "1", "2", "3", "4", "5", "6", "7", "8", "9"}

Whitespace == {" ", "\t", "\n", "\r"}

LowerChar(c) == IF c \in UpperChars THEN ToLower[c] ELSE c

\* str.lower()
Lower(s) ==
    LET F[i \in 0..Len(s)] ==
            IF i = 0 THEN "" ELSE F[i - 1] \o LowerChar(Ch(s, i))
    IN  F[Len(s)]

\* str.strip(chars): drop the leading and trailing characters that are in cs
StripChars(s, cs) ==
    LET keep == {i \in 1..Len(s) : Ch(s, i) \notin cs}
    IN  IF keep = {} THEN ""
        ELSE LET lo == CHOOSE i \in keep : \A j \in keep : i <= j
                 hi == CHOOSE i \in keep : \A j \in keep : i >= j
             IN  SubSeq(s, lo, hi)

\* str.rstrip(chars)
RStripChars(s, cs) ==
    LET keep == {i \in 1..Len(s) : Ch(s, i) \notin cs}
    IN  IF keep = {} THEN ""
        ELSE SubSeq(s, 1, CHOOSE i \in keep : \A j \in keep : i >= j)

\* re.sub(r"[^a-z0-9]+", "-", s): every maximal run of other characters
\* becomes one hyphen
SubNonSlugRuns(s) ==
    LET F[i \in 0..Len(s)] ==
            IF i = 0 THEN ""
            ELSE IF Ch(s, i) \in SlugChars THEN F[i - 1] \o Ch(s, i)
            ELSE IF i > 1 /\ Ch(s, i - 1) \notin SlugChars THEN F[i - 1]
            ELSE F[i - 1] \o "-"
    IN  F[Len(s)]

slugify_NoTrim(value) ==
    SubNonSlugRuns(Lower(StripChars(value, Whitespace)))

slugify(value) ==
    StripChars(SubNonSlugRuns(Lower(StripChars(value, Whitespace))), {"-"})

(***************************************************************************)
(* Dicts                                                                   *)
(***************************************************************************)

\* d.get(k) read for its truth value, a string-valued key
GetStr(d, k) == IF k \in DOMAIN d THEN d[k] ELSE ""

\* d.get(k) read for its truth value, a list-valued key
GetList(d, k) == IF k \in DOMAIN d THEN d[k] ELSE << >>

\* a or b or c or dflt, on strings
OrStr(a, b, c, dflt) ==
    IF a # "" THEN a ELSE IF b # "" THEN b ELSE IF c # "" THEN c ELSE dflt

(***************************************************************************)
(* Normalisation                                                           *)
(***************************************************************************)

LeetcodeProblemsPrefix == "https://leetcode.com/problems/"

\* the body of the loop of normalize_problems
NormalizeProblem(p) ==
    LET title == OrStr(GetStr(p, "title"), GetStr(p, "name"),
                       GetStr(p, "question"), "Unknown Problem")
        difficulty == OrStr(GetStr(p, "difficulty"), GetStr(p, "level"),
                            GetStr(p, "tier"), "Unknown")
        url0 == OrStr(GetStr(p, "url"), GetStr(p, "link"),
                      GetStr(p, "leetcode_url"), "")
        url == IF url0 = "" /\ title # ""
               THEN LeetcodeProblemsPrefix \o slugify(title) \o "/"
               ELSE url0
    IN  [title |-> title, difficulty |-> difficulty, url |-> url]

\* normalize_problems with entries that have no title left out
normalize_problems_SkipUntitled(problems) ==
    LET F[i \in 0..Len(problems)] ==
            IF i = 0 THEN << >>
            ELSE IF OrStr(GetStr(problems[i], "title"),
                          GetStr(problems[i], "name"),
                          GetStr(problems[i], "question"), "") = ""
            THEN F[i - 1]
            ELSE Append(F[i - 1], NormalizeProblem(problems[i]))
    IN  F[Len(problems)]

normalize_problems(problems) ==
    LET F[i \in 0..Len(problems)] ==
            IF i = 0 THEN << >>
            ELSE Append(F[i - 1], NormalizeProblem(problems[i]))
    IN  F[Len(problems)]

\* The conditional expression binds looser than "or": with an empty name the
\* url is base_url, whatever the entry's url or link.
normalize_pattern(entry, base_url) ==
    LET name == OrStr(GetStr(entry, "pattern"), GetStr(entry, "name"),
                      GetStr(entry, "title"), "")
        url == IF name # ""
               THEN OrStr(GetStr(entry, "url"), GetStr(entry, "link"), "",
                          RStripChars(base_url, {"/"}) \o "/" \o slugify(name))
               ELSE base_url
        notes == OrStr(GetStr(entry, "notes"), GetStr(entry, "description"),
                       GetStr(entry, "summary"), "")
        raw == IF Len(GetList(entry, "problems")) > 0
               THEN GetList(entry, "problems")
               ELSE GetList(entry, "questions")
    IN  [pattern |-> name, url |-> url,
         problems |-> normalize_problems(raw), notes |-> notes]

(***************************************************************************)
(* Deduplication                                                           *)
(***************************************************************************)

\* DedupeLoop with the key taken without lower()
DedupeLoop_CaseSensitive(patterns) ==
    LET F[j \in 0..Len(patterns)] ==
            IF j = 0 THEN [seen |-> {}, deduped |-> << >>]
            ELSE LET prev == F[j - 1]
                     key == GetStr(patterns[j], "pattern")
                 IN  IF key \in prev.seen THEN prev
                     ELSE [seen |-> prev.seen \cup {key},
                           deduped |-> Append(prev.deduped, patterns[j])]
    IN  F

\* the loop of dedupe_patterns: seen and deduped after the first j records
DedupeLoop(patterns) ==
    LET F[j \in 0..Len(patterns)] ==
            IF j = 0 THEN [seen |-> {}, deduped |-> << >>]
            ELSE LET prev == F[j - 1]
                     key == Lower(GetStr(patterns[j], "pattern"))
                 IN  IF key \in prev.seen THEN prev
                     ELSE [seen |-> prev.seen \cup {key},
                           deduped |-> Append(prev.deduped, patterns[j])]
    IN  F

dedupe_patterns(patterns) == DedupeLoop(patterns)[Len(patterns)].deduped

(***************************************************************************)
(* Program constants                                                       *)
(***************************************************************************)

DEFAULT_BASE_SITE == "https://seanprashad.com/leetcode-patterns/"

\* LOCAL_MINIMAL_FALLBACK as the module defines it at import time
MinimalFallbackLiteral ==
    <<
      [pattern |-> "Two Pointers",
       url |-> "",
       notes |-> "Move two indices from ends or same side to shrink search space.",
       problems |-> <<
         [title |-> "Two Sum II - Input Array Is Sorted",
          difficulty |-> "Medium",
          url |-> "https://leetcode.com/problems/two-sum-ii-input-array-is-sorted/"],
         [title |-> "3Sum",
          difficulty |-> "Medium",
          url |-> "https://leetcode.com/problems/3sum/"],
         [title |-> "Container With Most Water",
          difficulty |-> "Medium",
          url |-> "https://leetcode.com/problems/container-with-most-water/"] >>],
      [pattern |-> "Binary Search",
       url |-> "",
       notes |-> "Halve the search space; prove monotonicity before applying.",
       problems |-> <<
         [title |-> "Binary Search",
          difficulty |-> "Easy",
          url |-> "https://leetcode.com/problems/binary-search/"],
         [title |-> "Search Insert Position",
          difficulty |-> "Easy",
          url |-> "https://leetcode.com/problems/search-insert-position/"],
         [title |-> "Find Peak Element",
          difficulty |-> "Medium",
          url |-> "https://leetcode.com/problems/find-peak-element/"] >>],
      [pattern |-> "Sliding Window",
       url |-> "",
       notes |-> "Maintain a window over the array/string to track counts or sums efficiently.",
       problems |-> <<
         [title |-> "Longest Substring Without Repeating Characters",
          difficulty |-> "Medium",
          url |-> "https://leetcode.com/problems/longest-substring-without-repeating-characters/"],
         [title |-> "Minimum Size Subarray Sum",
          difficulty |-> "Medium",
          url |-> "https://leetcode.com/problems/minimum-size-subarray-sum/"],
         [title |-> "Permutation in String",
          difficulty |-> "Medium",
          url |-> "https://leetcode.com/problems/permutation-in-string/"] >>],
      [pattern |-> "Dynamic Programming",
       url |-> "",
       notes |-> "Overlapping subproblems + optimal substructure; define state, transition, base cases.",
       problems |-> <<
         [title |-> "Climbing Stairs",
          difficulty |-> "Easy",
          url |-> "https://leetcode.com/problems/climbing-stairs/"],
         [title |-> "Coin Change",
          difficulty |-> "Medium",
          url |-> "https://leetcode.com/problems/coin-change/"],
         [title |-> "Longest Increasing Subsequence",
          difficulty |-> "Medium",
          url |-> "https://leetcode.com/problems/longest-increasing-subsequence/"] >>],
      [pattern |-> "Backtracking",
       url |-> "",
       notes |-> "DFS over decision tree; choose, explore, unchoose.",
       problems |-> <<
         [title |-> "Subsets",
          difficulty |-> "Medium",
          url |-> "https://leetcode.com/problems/subsets/"],
         [title |-> "Permutations",
          difficulty |-> "Medium",
          url |-> "https://leetcode.com/problems/permutations/"],
         [title |-> "Combination Sum",
          difficulty |-> "Medium",
          url |-> "https://leetcode.com/problems/combination-sum/"] >>],
      [pattern |-> "Breadth-First Search",
       url |-> "",
       notes |-> "Level-order traversal for shortest paths or minimum steps.",
       problems |-> <<
         [title |-> "Binary Tree Level Order Traversal",
          difficulty |-> "Medium",
          url |-> "https://leetcode.com/problems/binary-tree-level-order-traversal/"],
         [title |-> "Word Ladder",
          difficulty |-> "Hard",
          url |-> "https://leetcode.com/problems/word-ladder/"],
         [title |-> "Rotting Oranges",
          difficulty |-> "Medium",
          url |-> "https://leetcode.com/problems/rotting-oranges/"] >>],
      [pattern |-> "Depth-First Search",
       url |-> "",
       notes |-> "Recursive/stack traversal for connectivity, components, and enumerations.",
       problems |-> <<
         [title |-> "Number of Islands",
          difficulty |-> "Medium",
          url |-> "https://leetcode.com/problems/number-of-islands/"],
         [title |-> "Clone Graph",
          difficulty |-> "Medium",
          url |-> "https://leetcode.com/problems/clone-graph/"],
         [title |-> "Course Schedule",
          difficulty |-> "Medium",
          url |-> "https://leetcode.com/problems/course-schedule/"] >>],
      [pattern |-> "Greedy",
       url |-> "",
       notes |-> "Pick locally optimal choices that lead to global optimum; prove with exchange arguments.",
       problems |-> <<
         [title |-> "Jump Game",
          difficulty |-> "Medium",
          url |-> "https://leetcode.com/problems/jump-game/"],
         [title |-> "Merge Intervals",
          difficulty |-> "Medium",
          url |-> "https://leetcode.com/problems/merge-intervals/"],
         [title |-> "Gas Station",
          difficulty |-> "Medium",
          url |-> "https://leetcode.com/problems/gas-station/"] >>],
      [pattern |-> "Disjoint Set / Union-Find",
       url |-> "",
       notes |-> "Maintain dynamic connectivity with union/find and path compression + union by rank.",
       problems |-> <<
         [title |-> "Redundant Connection",
          difficulty |-> "Medium",
          url |-> "https://leetcode.com/problems/redundant-connection/"],
         [title |-> "Number of Provinces",
          difficulty |-> "Medium",
          url |-> "https://leetcode.com/problems/number-of-provinces/"],
         [title |-> "Accounts Merge",
          difficulty |-> "Medium",
          url |-> "https://leetcode.com/problems/accounts-merge/"] >>],
      [pattern |-> "Topological Sort",
       url |-> "",
       notes |-> "Order DAG nodes with in-degree (Kahn) or DFS post-order to detect cycles.",
       problems |-> <<
         [title |-> "Course Schedule",
          difficulty |-> "Medium",
          url |-> "https://leetcode.com/problems/course-schedule/"],
         [title |-> "Course Schedule II",
          difficulty |-> "Medium",
          url |-> "https://leetcode.com/problems/course-schedule-ii/"],
         [title |-> "Alien Dictionary",
          difficulty |-> "Hard",
          url |-> "https://leetcode.com/problems/alien-dictionary/"] >>],
      [pattern |-> "Priority Queue / Heap",
       url |-> "",
       notes |-> "Maintain best/worst element efficiently; great for k-th problems and greedy checks.",
       problems |-> <<
         [title |-> "Kth Largest Element in an Array",
          difficulty |-> "Medium",
          url |-> "https://leetcode.com/problems/kth-largest-element-in-an-array/"],
         [title |-> "Task Scheduler",
          difficulty |-> "Medium",
          url |-> "https://leetcode.com/problems/task-scheduler/"],
         [title |-> "Merge k Sorted Lists",
          difficulty |-> "Hard",
          url |-> "https://leetcode.com/problems/merge-k-sorted-lists/"] >>],
      [pattern |-> "Prefix Sum / Difference Array",
       url |-> "",
       notes |-> "Precompute cumulative sums to query ranges in O(1); use diffs for range updates.",
       problems |-> <<
         [title |-> "Range Sum Query - Immutable",
          difficulty |-> "Easy",
          url |-> "https://leetcode.com/problems/range-sum-query-immutable/"],
         [title |-> "Subarray Sum Equals K",
          difficulty |-> "Medium",
          url |-> "https://leetcode.com/problems/subarray-sum-equals-k/"],
         [title |-> "Corporate Flight Bookings",
          difficulty |-> "Medium",
          url |-> "https://leetcode.com/problems/corporate-flight-bookings/"] >>],
      [pattern |-> "Monotonic Stack / Queue",
       url |-> "",
       notes |-> "Maintain increasing/decreasing stack to find next/prev greater/smaller efficiently.",
       problems |-> <<
         [title |-> "Daily Temperatures",
          difficulty |-> "Medium",
          url |-> "https://leetcode.com/problems/daily-temperatures/"],
         [title |-> "Largest Rectangle in Histogram",
          difficulty |-> "Hard",
          url |-> "https://leetcode.com/problems/largest-rectangle-in-histogram/"],
         [title |-> "Sliding Window Maximum",
          difficulty |-> "Hard",
          url |-> "https://leetcode.com/problems/sliding-window-maximum/"] >>],
      [pattern |-> "Trie",
       url |-> "",
       notes |-> "Prefix tree for fast prefix queries, word search, and replacement.",
       problems |-> <<
         [title |-> "Implement Trie (Prefix Tree)",
          difficulty |-> "Medium",
          url |-> "https://leetcode.com/problems/implement-trie-prefix-tree/"],
         [title |-> "Replace Words",
          difficulty |-> "Medium",
          url |-> "https://leetcode.com/problems/replace-words/"],
         [title |-> "Word Search II",
          difficulty |-> "Hard",
          url |-> "https://leetcode.com/problems/word-search-ii/"] >>],
      [pattern |-> "Interval Scheduling",
       url |-> "",
       notes |-> "Sort intervals; merge or choose greedily based on start/end times.",
       problems |-> <<
         [title |-> "Non-overlapping Intervals",
          difficulty |-> "Medium",
          url |-> "https://leetcode.com/problems/non-overlapping-intervals/"],
         [title |-> "Meeting Rooms II",
          difficulty |-> "Medium",
          url |-> "https://leetcode.com/problems/meeting-rooms-ii/"],
         [title |-> "Insert Interval",
          difficulty |-> "Medium",
          url |-> "https://leetcode.com/problems/insert-interval/"] >>],
      [pattern |-> "Segment Tree / Fenwick",
       url |-> "",
       notes |-> "Range queries/updates in O(log n); choose Fenwick for simplicity, segment tree for flexibility.",
       problems |-> <<
         [title |-> "Range Sum Query - Mutable",
          difficulty |-> "Medium",
          url |-> "https://leetcode.com/problems/range-sum-query-mutable/"],
         [title |-> "Count of Smaller Numbers After Self",
          difficulty |-> "Hard",
          url |-> "https://leetcode.com/problems/count-of-smaller-numbers-after-self/"],
         [title |-> "Longest Substring with At Most K Distinct Characters",
          difficulty |-> "Hard",
          url |-> "https://leetcode.com/problems/longest-substring-with-at-most-k-distinct-characters/"] >>]
    >>

PROBLEM_LIBRARY ==
    "Two Pointers" :> <<
         [title |-> "Two Sum II - Input Array Is Sorted",
          difficulty |-> "Medium",
          url |-> "https://leetcode.com/problems/two-sum-ii-input-array-is-sorted/"],
         [title |-> "3Sum",
          difficulty |-> "Medium",
          url |-> "https://leetcode.com/problems/3sum/"],
         [title |-> "Container With Most Water",
          difficulty |-> "Medium",
          url |-> "https://leetcode.com/problems/container-with-most-water/"],
         [title |-> "Trapping Rain Water",
          difficulty |-> "Hard",
          url |-> "https://leetcode.com/problems/trapping-rain-water/"],
         [title |-> "Remove Nth Node From End of List",
          difficulty |-> "Medium",
          url |-> "https://leetcode.com/problems/remove-nth-node-from-end-of-list/"],
         [title |-> "Partition List",
          difficulty |-> "Medium",
          url |-> "https://leetcode.com/problems/partition-list/"],
         [title |-> "Squares of a Sorted Array",
          difficulty |-> "Easy",
          url |-> "https://leetcode.com/problems/squares-of-a-sorted-array/"],
         [title |-> "Move Zeroes",
          difficulty |-> "Easy",
          url |-> "https://leetcode.com/problems/move-zeroes/"] >> @@
    "Binary Search" :> <<
         [title |-> "Binary Search",
          difficulty |-> "Easy",
          url |-> "https://leetcode.com/problems/binary-search/"],
         [title |-> "Search Insert Position",
          difficulty |-> "Easy",
          url |-> "https://leetcode.com/problems/search-insert-position/"],
         [title |-> "Find First and Last Position of Element in Sorted Array",
          difficulty |-> "Medium",
          url |-> "https://leetcode.com/problems/find-first-and-last-position-of-element-in-sorted-array/"],
         [title |-> "Search in Rotated Sorted Array",
          difficulty |-> "Medium",
          url |-> "https://leetcode.com/problems/search-in-rotated-sorted-array/"],
         [title |-> "Find Minimum in Rotated Sorted Array",
          difficulty |-> "Medium",
          url |-> "https://leetcode.com/problems/find-minimum-in-rotated-sorted-array/"],
         [title |-> "Capacity To Ship Packages Within D Days",
          difficulty |-> "Medium",
          url |-> "https://leetcode.com/problems/capacity-to-ship-packages-within-d-days/"],
         [title |-> "Koko Eating Bananas",
          difficulty |-> "Medium",
          url |-> "https://leetcode.com/problems/koko-eating-bananas/"],
         [title |-> "Median of Two Sorted Arrays",
          difficulty |-> "Hard",
          url |-> "https://leetcode.com/problems/median-of-two-sorted-arrays/"] >> @@
    "Sliding Window" :> <<
         [title |-> "Longest Substring Without Repeating Characters",
          difficulty |-> "Medium",
          url |-> "https://leetcode.com/problems/longest-substring-without-repeating-characters/"],
         [title |-> "Minimum Window Substring",
          difficulty |-> "Hard",
          url |-> "https://leetcode.com/problems/minimum-window-substring/"],
         [title |-> "Permutation in String",
          difficulty |-> "Medium",
          url |-> "https://leetcode.com/problems/permutation-in-string/"],
         [title |-> "Longest Repeating Character Replacement",
          difficulty |-> "Medium",
          url |-> "https://leetcode.com/problems/longest-repeating-character-replacement/"],
         [title |-> "Sliding Window Maximum",
          difficulty |-> "Hard",
          url |-> "https://leetcode.com/problems/sliding-window-maximum/"],
         [title |-> "Fruit Into Baskets",
          difficulty |-> "Medium",
          url |-> "https://leetcode.com/problems/fruit-into-baskets/"],
         [title |-> "Subarrays with K Different Integers",
          difficulty |-> "Hard",
          url |-> "https://leetcode.com/problems/subarrays-with-k-different-integers/"],
         [title |-> "Minimum Size Subarray Sum",
          difficulty |-> "Medium",
          url |-> "https://leetcode.com/problems/minimum-size-subarray-sum/"] >> @@
    "Dynamic Programming" :> <<
         [title |-> "Climbing Stairs",
          difficulty |-> "Easy",
          url |-> "https://leetcode.com/problems/climbing-stairs/"],
         [title |-> "House Robber",
          difficulty |-> "Medium",
          url |-> "https://leetcode.com/problems/house-robber/"],
         [title |-> "Coin Change",
          difficulty |-> "Medium",
          url |-> "https://leetcode.com/problems/coin-change/"],
         [title |-> "Longest Increasing Subsequence",
          difficulty |-> "Medium",
          url |-> "https://leetcode.com/problems/longest-increasing-subsequence/"],
         [title |-> "Longest Common Subsequence",
          difficulty |-> "Medium",
          url |-> "https://leetcode.com/problems/longest-common-subsequence/"],
         [title |-> "Edit Distance",
          difficulty |-> "Hard",
          url |-> "https://leetcode.com/problems/edit-distance/"],
         [title |-> "Word Break",
          difficulty |-> "Medium",
          url |-> "https://leetcode.com/problems/word-break/"],
         [title |-> "Partition Equal Subset Sum",
          difficulty |-> "Medium",
          url |-> "https://leetcode.com/problems/partition-equal-subset-sum/"] >> @@
    "Backtracking" :> <<
         [title |-> "Subsets",
          difficulty |-> "Medium",
          url |-> "https://leetcode.com/problems/subsets/"],
         [title |-> "Permutations",
          difficulty |-> "Medium",
          url |-> "https://leetcode.com/problems/permutations/"],
         [title |-> "Combination Sum",
          difficulty |-> "Medium",
          url |-> "https://leetcode.com/problems/combination-sum/"],
         [title |-> "Letter Combinations of a Phone Number",
          difficulty |-> "Medium",
          url |-> "https://leetcode.com/problems/letter-combinations-of-a-phone-number/"],
         [title |-> "Palindrome Partitioning",
          difficulty |-> "Medium",
          url |-> "https://leetcode.com/problems/palindrome-partitioning/"],
         [title |-> "N-Queens",
          difficulty |-> "Hard",
          url |-> "https://leetcode.com/problems/n-queens/"],
         [title |-> "Word Search",
          difficulty |-> "Medium",
          url |-> "https://leetcode.com/problems/word-search/"],
         [title |-> "Generate Parentheses",
          difficulty |-> "Medium",
          url |-> "https://leetcode.com/problems/generate-parentheses/"] >> @@
    "Breadth-First Search" :> <<
         [title |-> "Binary Tree Level Order Traversal",
          difficulty |-> "Medium",
          url |-> "https://leetcode.com/problems/binary-tree-level-order-traversal/"],
         [title |-> "Rotting Oranges",
          difficulty |-> "Medium",
          url |-> "https://leetcode.com/problems/rotting-oranges/"],
         [title |-> "Word Ladder",
          difficulty |-> "Hard",
          url |-> "https://leetcode.com/problems/word-ladder/"],
         [title |-> "Number of Islands",
          difficulty |-> "Medium",
          url |-> "https://leetcode.com/problems/number-of-islands/"],
         [title |-> "Shortest Path in Binary Matrix",
          difficulty |-> "Medium",
          url |-> "https://leetcode.com/problems/shortest-path-in-binary-matrix/"],
         [title |-> "Open the Lock",
          difficulty |-> "Medium",
          url |-> "https://leetcode.com/problems/open-the-lock/"] >> @@
    "Depth-First Search" :> <<
         [title |-> "Number of Islands",
          difficulty |-> "Medium",
          url |-> "https://leetcode.com/problems/number-of-islands/"],
         [title |-> "Clone Graph",
          difficulty |-> "Medium",
          url |-> "https://leetcode.com/problems/clone-graph/"],
         [title |-> "Course Schedule",
          difficulty |-> "Medium",
          url |-> "https://leetcode.com/problems/course-schedule/"],
         [title |-> "Pacific Atlantic Water Flow",
          difficulty |-> "Medium",
          url |-> "https://leetcode.com/problems/pacific-atlantic-water-flow/"],
         [title |-> "Graph Valid Tree",
          difficulty |-> "Medium",
          url |-> "https://leetcode.com/problems/graph-valid-tree/"],
         [title |-> "Path Sum III",
          difficulty |-> "Medium",
          url |-> "https://leetcode.com/problems/path-sum-iii/"] >> @@
    "Greedy" :> <<
         [title |-> "Jump Game",
          difficulty |-> "Medium",
          url |-> "https://leetcode.com/problems/jump-game/"],
         [title |-> "Jump Game II",
          difficulty |-> "Medium",
          url |-> "https://leetcode.com/problems/jump-game-ii/"],
         [title |-> "Merge Intervals",
          difficulty |-> "Medium",
          url |-> "https://leetcode.com/problems/merge-intervals/"],
         [title |-> "Non-overlapping Intervals",
          difficulty |-> "Medium",
          url |-> "https://leetcode.com/problems/non-overlapping-intervals/"],
         [title |-> "Gas Station",
          difficulty |-> "Medium",
          url |-> "https://leetcode.com/problems/gas-station/"],
         [title |-> "Partition Labels",
          difficulty |-> "Medium",
          url |-> "https://leetcode.com/problems/partition-labels/"],
         [title |-> "Minimum Number of Arrows to Burst Balloons",
          difficulty |-> "Medium",
          url |-> "https://leetcode.com/problems/minimum-number-of-arrows-to-burst-balloons/"],
         [title |-> "Candy",
          difficulty |-> "Hard",
          url |-> "https://leetcode.com/problems/candy/"] >> @@
    "Disjoint Set / Union-Find" :> <<
         [title |-> "Redundant Connection",
          difficulty |-> "Medium",
          url |-> "https://leetcode.com/problems/redundant-connection/"],
         [title |-> "Number of Provinces",
          difficulty |-> "Medium",
          url |-> "https://leetcode.com/problems/number-of-provinces/"],
         [title |-> "Accounts Merge",
          difficulty |-> "Medium",
          url |-> "https://leetcode.com/problems/accounts-merge/"],
         [title |-> "Graph Valid Tree",
          difficulty |-> "Medium",
          url |-> "https://leetcode.com/problems/graph-valid-tree/"],
         [title |-> "Evaluate Division",
          difficulty |-> "Medium",
          url |-> "https://leetcode.com/problems/evaluate-division/"],
         [title |-> "Smallest String With Swaps",
          difficulty |-> "Medium",
          url |-> "https://leetcode.com/problems/smallest-string-with-swaps/"],
         [title |-> "Most Stones Removed with Same Row or Column",
          difficulty |-> "Medium",
          url |-> "https://leetcode.com/problems/most-stones-removed-with-same-row-or-column/"] >> @@
    "Topological Sort" :> <<
         [title |-> "Course Schedule",
          difficulty |-> "Medium",
          url |-> "https://leetcode.com/problems/course-schedule/"],
         [title |-> "Course Schedule II",
          difficulty |-> "Medium",
          url |-> "https://leetcode.com/problems/course-schedule-ii/"],
         [title |-> "Alien Dictionary",
          difficulty |-> "Hard",
          url |-> "https://leetcode.com/problems/alien-dictionary/"],
         [title |-> "Parallel Courses",
          difficulty |-> "Medium",
          url |-> "https://leetcode.com/problems/parallel-courses/"],
         [title |-> "Sequence Reconstruction",
          difficulty |-> "Medium",
          url |-> "https://leetcode.com/problems/sequence-reconstruction/"] >> @@
    "Priority Queue / Heap" :> <<
         [title |-> "Kth Largest Element in an Array",
          difficulty |-> "Medium",
          url |-> "https://leetcode.com/problems/kth-largest-element-in-an-array/"],
         [title |-> "Top K Frequent Elements",
          difficulty |-> "Medium",
          url |-> "https://leetcode.com/problems/top-k-frequent-elements/"],
         [title |-> "Task Scheduler",
          difficulty |-> "Medium",
          url |-> "https://leetcode.com/problems/task-scheduler/"],
         [title |-> "Merge k Sorted Lists",
          difficulty |-> "Hard",
          url |-> "https://leetcode.com/problems/merge-k-sorted-lists/"],
         [title |-> "Find Median from Data Stream",
          difficulty |-> "Hard",
          url |-> "https://leetcode.com/problems/find-median-from-data-stream/"],
         [title |-> "K Closest Points to Origin",
          difficulty |-> "Medium",
          url |-> "https://leetcode.com/problems/k-closest-points-to-origin/"],
         [title |-> "Reorganize String",
          difficulty |-> "Medium",
          url |-> "https://leetcode.com/problems/reorganize-string/"] >> @@
    "Prefix Sum / Difference Array" :> <<
         [title |-> "Range Sum Query - Immutable",
          difficulty |-> "Easy",
          url |-> "https://leetcode.com/problems/range-sum-query-immutable/"],
         [title |-> "Subarray Sum Equals K",
          difficulty |-> "Medium",
          url |-> "https://leetcode.com/problems/subarray-sum-equals-k/"],
         [title |-> "Continuous Subarray Sum",
          difficulty |-> "Medium",
          url |-> "https://leetcode.com/problems/continuous-subarray-sum/"],
         [title |-> "Find Pivot Index",
          difficulty |-> "Easy",
          url |-> "https://leetcode.com/problems/find-pivot-index/"],
         [title |-> "Longest Subarray of 1's After Deleting One Element",
          difficulty |-> "Medium",
          url |-> "https://leetcode.com/problems/longest-subarray-of-1s-after-deleting-one-element/"],
         [title |-> "Minimum Value to Get Positive Step by Step Sum",
          difficulty |-> "Easy",
          url |-> "https://leetcode.com/problems/minimum-value-to-get-positive-step-by-step-sum/"] >> @@
    "Monotonic Stack / Queue" :> <<
         [title |-> "Daily Temperatures",
          difficulty |-> "Medium",
          url |-> "https://leetcode.com/problems/daily-temperatures/"],
         [title |-> "Next Greater Element I",
          difficulty |-> "Easy",
          url |-> "https://leetcode.com/problems/next-greater-element-i/"],
         [title |-> "Next Greater Element II",
          difficulty |-> "Medium",
          url |-> "https://leetcode.com/problems/next-greater-element-ii/"],
         [title |-> "Largest Rectangle in Histogram",
          difficulty |-> "Hard",
          url |-> "https://leetcode.com/problems/largest-rectangle-in-histogram/"],
         [title |-> "Maximal Rectangle",
          difficulty |-> "Hard",
          url |-> "https://leetcode.com/problems/maximal-rectangle/"],
         [title |-> "Trapping Rain Water",
          difficulty |-> "Hard",
          url |-> "https://leetcode.com/problems/trapping-rain-water/"],
         [title |-> "Remove K Digits",
          difficulty |-> "Medium",
          url |-> "https://leetcode.com/problems/remove-k-digits/"] >> @@
    "Trie" :> <<
         [title |-> "Implement Trie (Prefix Tree)",
          difficulty |-> "Medium",
          url |-> "https://leetcode.com/problems/implement-trie-prefix-tree/"],
         [title |-> "Design Add and Search Words Data Structure",
          difficulty |-> "Medium",
          url |-> "https://leetcode.com/problems/design-add-and-search-words-data-structure/"],
         [title |-> "Word Search II",
          difficulty |-> "Hard",
          url |-> "https://leetcode.com/problems/word-search-ii/"],
         [title |-> "Replace Words",
          difficulty |-> "Medium",
          url |-> "https://leetcode.com/problems/replace-words/"],
         [title |-> "Longest Word in Dictionary",
          difficulty |-> "Medium",
          url |-> "https://leetcode.com/problems/longest-word-in-dictionary/"],
         [title |-> "Design Search Autocomplete System",
          difficulty |-> "Hard",
          url |-> "https://leetcode.com/problems/design-search-autocomplete-system/"] >> @@
    "Interval Scheduling" :> <<
         [title |-> "Non-overlapping Intervals",
          difficulty |-> "Medium",
          url |-> "https://leetcode.com/problems/non-overlapping-intervals/"],
         [title |-> "Insert Interval",
          difficulty |-> "Medium",
          url |-> "https://leetcode.com/problems/insert-interval/"],
         [title |-> "Meeting Rooms II",
          difficulty |-> "Medium",
          url |-> "https://leetcode.com/problems/meeting-rooms-ii/"],
         [title |-> "Minimum Number of Arrows to Burst Balloons",
          difficulty |-> "Medium",
          url |-> "https://leetcode.com/problems/minimum-number-of-arrows-to-burst-balloons/"],
         [title |-> "Merge Intervals",
          difficulty |-> "Medium",
          url |-> "https://leetcode.com/problems/merge-intervals/"],
         [title |-> "Car Pooling",
          difficulty |-> "Medium",
          url |-> "https://leetcode.com/problems/car-pooling/"] >> @@
    "Segment Tree / Fenwick" :> <<
         [title |-> "Range Sum Query - Mutable",
          difficulty |-> "Medium",
          url |-> "https://leetcode.com/problems/range-sum-query-mutable/"],
         [title |-> "Count of Smaller Numbers After Self",
          difficulty |-> "Hard",
          url |-> "https://leetcode.com/problems/count-of-smaller-numbers-after-self/"],
         [title |-> "Reverse Pairs",
          difficulty |-> "Hard",
          url |-> "https://leetcode.com/problems/reverse-pairs/"],
         [title |-> "Longest Increasing Subsequence",
          difficulty |-> "Medium",
          url |-> "https://leetcode.com/problems/longest-increasing-subsequence/"],
         [title |-> "K-th Smallest Prime Fraction",
          difficulty |-> "Hard",
          url |-> "https://leetcode.com/problems/k-th-smallest-prime-fraction/"] >>

(***************************************************************************)
(* Enrichment                                                              *)
(***************************************************************************)

\* EnrichLoop with the candidate inserted at the front of the list
EnrichLoop_Prepend(problems, library, min_count) ==
    LET F[j \in 0..Len(library)] ==
            IF j = 0
            THEN [problems |-> problems,
                  existing_titles |->
                      {Lower(GetStr(problems[i], "title")) :
                          i \in 1..Len(problems)},
                  broke |-> FALSE]
            ELSE LET prev == F[j - 1]
                     title == GetStr(library[j], "title")
                 IN  IF prev.broke \/ Lower(title) \in prev.existing_titles
                     THEN prev
                     ELSE [problems |-> <<library[j]>> \o prev.problems,
                           existing_titles |->
                               prev.existing_titles \cup {Lower(title)},
                           broke |-> Len(prev.problems) + 1 >= min_count]
    IN  F[Len(library)]

\* EnrichLoop that breaks only once the count exceeds min_count
EnrichLoop_BreakLate(problems, library, min_count) ==
    LET F[j \in 0..Len(library)] ==
            IF j = 0
            THEN [problems |-> problems,
                  existing_titles |->
                      {Lower(GetStr(problems[i], "title")) :
                          i \in 1..Len(problems)},
                  broke |-> FALSE]
            ELSE LET prev == F[j - 1]
                     title == GetStr(library[j], "title")
                 IN  IF prev.broke \/ Lower(title) \in prev.existing_titles
                     THEN prev
                     ELSE [problems |-> Append(prev.problems, library[j]),
                           existing_titles |->
                               prev.existing_titles \cup {Lower(title)},
                           broke |-> Len(prev.problems) + 1 > min_count]
    IN  F[Len(library)]

\* EnrichLoop that compares the candidate's title as written
EnrichLoop_CaseSensitive(problems, library, min_count) ==
    LET F[j \in 0..Len(library)] ==
            IF j = 0
            THEN [problems |-> problems,
                  existing_titles |->
                      {GetStr(problems[i], "title") : i \in 1..Len(problems)},
                  broke |-> FALSE]
            ELSE LET prev == F[j - 1]
                     title == GetStr(library[j], "title")
                 IN  IF prev.broke \/ title \in prev.existing_titles
                     THEN prev
                     ELSE [problems |-> Append(prev.problems, library[j]),
                           existing_titles |->
                               prev.existing_titles \cup {title},
                           broke |-> Len(prev.problems) + 1 >= min_count]
    IN  F[Len(library)]

\* the inner loop of enrich_problem_lists over the library's candidates: the
\* problems, the lowercased titles seen and whether the loop has broken,
\* after the first j candidates
EnrichLoop(problems, library, min_count) ==
    LET F[j \in 0..Len(library)] ==
            IF j = 0
            THEN [problems |-> problems,
                  existing_titles |->
                      {Lower(GetStr(problems[i], "title")) :
                          i \in 1..Len(problems)},
                  broke |-> FALSE]
            ELSE LET prev == F[j - 1]
                     title == GetStr(library[j], "title")
                 IN  IF prev.broke \/ Lower(title) \in prev.existing_titles
                     THEN prev
                     ELSE [problems |-> Append(prev.problems, library[j]),
                           existing_titles |->
                               prev.existing_titles \cup {Lower(title)},
                           broke |-> Len(prev.problems) + 1 >= min_count]
    IN  F[Len(library)]

\* the body of the outer loop of enrich_problem_lists
\* EnrichPattern finding no library entry under any name
EnrichPattern_NoLibrary(pattern, min_count) == pattern

EnrichPattern(pattern, min_count) ==
    LET name == GetStr(pattern, "pattern")
        library == IF name \in DOMAIN PROBLEM_LIBRARY
                   THEN PROBLEM_LIBRARY[name] ELSE << >>
    IN  IF Len(library) = 0 THEN pattern
        ELSE [pattern EXCEPT !.problems =
                  EnrichLoop(pattern.problems, library, min_count).problems]

enrich_problem_lists(patterns, min_count) ==
    [i \in 1..Len(patterns) |-> EnrichPattern(patterns[i], min_count)]

(***************************************************************************)
(* Extraction from the base page                                           *)
(*                                                                         *)
(* A fetched page is a record: script says whether the __NEXT_DATA__       *)
(* script tag is absent, holds text that is not JSON ("bad") or holds      *)
(* JSON ("json", the parsed value in next_data); blocks are the <h2>/<h3>  *)
(* headings with the stripped texts of the <li> items that follow each.    *)
(* text_empty says that the body is the empty string.                      *)
(*                                                                         *)
(* A JSON value is a tagged node: "null", "scalar" (truthy says whether    *)
(* it is a truthy number, string or boolean), "list" (items), "dict" (keys *)
(* in insertion order, vals) and "entries": a list whose items are dicts   *)
(* with string and list-of-dict values, in the dict representation above.  *)
(***************************************************************************)

JsonNull == [t |-> "null"]

JsonTruthy(node) ==
    CASE node.t = "null" -> FALSE
      [] node.t = "scalar" -> node.truthy
      [] node.t = "list" -> Len(node.items) > 0
      [] node.t = "entries" -> Len(node.items) > 0
      [] node.t = "dict" -> Len(node.keys) > 0

extract_next_data(html) ==
    IF html.script = "json" THEN html.next_data ELSE JsonNull

NameKeys == {"pattern", "name", "title"}

ProblemsKeys == {"problems", "questions"}

\* looks_like_pattern_list on a list of plain dicts
LooksLikeEntries(items) ==
    /\ Len(items) > 0
    /\ \A i \in 1..Len(items) :
          /\ DOMAIN items[i] \cap NameKeys # {}
          /\ DOMAIN items[i] \cap ProblemsKeys # {}

looks_like_pattern_list(node) ==
    node.t = "entries" /\ LooksLikeEntries(node.items)

DictHas(node, k) == \E i \in 1..Len(node.keys) : node.keys[i] = k

DictGet(node, k) ==
    node.vals[CHOOSE i \in 1..Len(node.keys) : node.keys[i] = k]

\* walk inside one item of an "entries" list that is not itself a pattern
\* list: of the item's values only the lists of dicts can match
WalkEntry(item, patterns) ==
    LET afterProblems ==
            IF Len(patterns) > 0 THEN patterns
            ELSE IF LooksLikeEntries(GetList(item, "problems"))
            THEN GetList(item, "problems") ELSE patterns
    IN  IF Len(afterProblems) > 0 THEN afterProblems
        ELSE IF LooksLikeEntries(GetList(item, "questions"))
        THEN GetList(item, "questions") ELSE afterProblems

RECURSIVE walk(_, _)
\* walk(node) with the nonlocal patterns passed in and returned
walk(node, patterns) ==
    IF Len(patterns) > 0 THEN patterns
    ELSE IF looks_like_pattern_list(node) THEN node.items
    ELSE IF node.t = "list"
    THEN LET F[i \in 0..Len(node.items)] ==
                 IF i = 0 THEN patterns ELSE walk(node.items[i], F[i - 1])
         IN  F[Len(node.items)]
    ELSE IF node.t = "entries"
    THEN LET F[i \in 0..Len(node.items)] ==
                 IF i = 0 THEN patterns ELSE WalkEntry(node.items[i], F[i - 1])
         IN  F[Len(node.items)]
    ELSE IF node.t = "dict"
    THEN IF DictHas(node, "patterns")
            /\ looks_like_pattern_list(DictGet(node, "patterns"))
         THEN DictGet(node, "patterns").items
         ELSE IF DictHas(node, "leetcodePatterns")
                 /\ looks_like_pattern_list(DictGet(node, "leetcodePatterns"))
         THEN DictGet(node, "leetcodePatterns").items
         ELSE LET F[i \in 0..Len(node.vals)] ==
                      IF i = 0 THEN patterns ELSE walk(node.vals[i], F[i - 1])
              IN  F[Len(node.vals)]
    ELSE patterns

extract_patterns_from_next_data(next_data) == walk(next_data, << >>)

\* one heading with its list items in extract_patterns_from_html
HtmlBlockProblems(items) ==
    LET F[i \in 0..Len(items)] ==
            IF i = 0 THEN << >>
            ELSE IF items[i] = "" THEN F[i - 1]
            ELSE Append(F[i - 1],
                        [title |-> items[i], difficulty |-> "Unknown",
                         url |-> ""])
    IN  F[Len(items)]

extract_patterns_from_html(html) ==
    LET F[i \in 0..Len(html.blocks)] ==
            IF i = 0 THEN << >>
            ELSE LET name == html.blocks[i].header
                     problems == HtmlBlockProblems(html.blocks[i].items)
                 IN  IF name # "" /\ Len(problems) > 0
                     THEN Append(F[i - 1],
                                 [pattern |-> name, problems |-> problems])
                     ELSE F[i - 1]
    IN  F[Len(html.blocks)]

(***************************************************************************)
(* Questions of an additional source, regrouped by tag                     *)
(*                                                                         *)
(* The tags of a question are a list of tag values, each [kind |-> "str",  *)
(* s |-> the string] or [kind |-> "dict", d |-> the dict].                 *)
(***************************************************************************)

TitleKeys == {"title", "name", "question"}

QuestionMarkKeys == {"difficulty", "level", "tier", "tags", "topics"}

is_question(d) ==
    DOMAIN d \cap TitleKeys # {} /\ DOMAIN d \cap QuestionMarkKeys # {}

\* "sub in s"
Contains(s, sub) ==
    \E i \in 1..(Len(s) - Len(sub) + 1) : SubSeq(s, i, i + Len(sub) - 1) = sub

normalize_question(d, source_url) ==
    LET title == OrStr(GetStr(d, "title"), GetStr(d, "name"),
                       GetStr(d, "question"), "")
        difficulty == OrStr(GetStr(d, "difficulty"), GetStr(d, "level"),
                            GetStr(d, "tier"), "Unknown")
        url0 == OrStr(GetStr(d, "url"), GetStr(d, "link"),
                      GetStr(d, "leetcode_url"), GetStr(d, "path"))
        slug == OrStr(GetStr(d, "slug"), GetStr(d, "problemSlug"), "", "")
        url == IF url0 = "" /\ slug # ""
               THEN IF Contains(source_url, "neetcode.io")
                    THEN "https://neetcode.io/problems/" \o slug
                    ELSE LeetcodeProblemsPrefix \o slug \o "/"
               ELSE url0
        tags == IF Len(GetList(d, "tags")) > 0 THEN GetList(d, "tags")
                ELSE IF Len(GetList(d, "topics")) > 0 THEN GetList(d, "topics")
                ELSE GetList(d, "topicTags")
    IN  [title |-> title, difficulty |-> difficulty, url |-> url,
         tags |-> tags]

RECURSIVE CollectList(_, _)
\* walk of _collect_questions over a list of plain dicts: each dict is
\* tested, then its list-of-dict values are walked
CollectList(items, source_url) ==
    IF Len(items) = 0 THEN << >>
    ELSE LET d == Head(items)
         IN  (IF is_question(d) THEN <<normalize_question(d, source_url)>>
              ELSE << >>)
             \o CollectList(GetList(d, "problems"), source_url)
             \o CollectList(GetList(d, "questions"), source_url)
             \o CollectList(Tail(items), source_url)

RECURSIVE CollectNode(_, _)
\* walk of _collect_questions over a JSON node
CollectNode(node, source_url) ==
    IF node.t = "entries" THEN CollectList(node.items, source_url)
    ELSE IF node.t = "list"
    THEN LET F[i \in 0..Len(node.items)] ==
                 IF i = 0 THEN << >>
                 ELSE F[i - 1] \o CollectNode(node.items[i], source_url)
         IN  F[Len(node.items)]
    ELSE IF node.t = "dict"
    THEN LET F[i \in 0..Len(node.vals)] ==
                 IF i = 0 THEN << >>
                 ELSE F[i - 1] \o CollectNode(node.vals[i], source_url)
         IN  F[Len(node.vals)]
    ELSE << >>

\* The function ends with walk(next_data), and next_data is neither a local
\* of _collect_questions (its parameter is node) nor a module-level name:
\* the call raises NameError before anything is walked.
_collect_questions(node, source_url) == [raised |-> TRUE, value |-> << >>]

\* tag_names of one question; a dict tag without name, slug or title gives
\* None, read as ""
TagNames(q) ==
    LET tags == GetList(q, "tags")
        names == [i \in 1..Len(tags) |->
                     IF tags[i].kind = "dict"
                     THEN OrStr(GetStr(tags[i].d, "name"),
                                GetStr(tags[i].d, "slug"),
                                GetStr(tags[i].d, "title"), "")
                     ELSE tags[i].s]
    IN  IF Len(names) = 0 THEN <<"General">> ELSE names

\* grouped[tag].append(q) for the truthy tags of q; grouped is a list of
\* [tag, probs] in order of first insertion
GroupQuestion(grouped, q) ==
    LET names == TagNames(q)
        F[i \in 0..Len(names)] ==
            IF i = 0 THEN grouped
            ELSE LET prev == F[i - 1]
                 IN  IF names[i] = "" THEN prev
                     ELSE IF \E g \in 1..Len(prev) : prev[g].tag = names[i]
                     THEN [g \in 1..Len(prev) |->
                              IF prev[g].tag = names[i]
                              THEN [tag |-> names[i],
                                    probs |-> Append(prev[g].probs, q)]
                              ELSE prev[g]]
                     ELSE Append(prev, [tag |-> names[i], probs |-> <<q>>])
    IN  F[Len(names)]

\* lines 797-815: the patterns synthesized from the collected questions
GroupedPatterns(questions, source_url) ==
    LET G[i \in 0..Len(questions)] ==
            IF i = 0 THEN << >> ELSE GroupQuestion(G[i - 1], questions[i])
        grouped == G[Len(questions)]
    IN  [g \in 1..Len(grouped) |->
            [pattern |-> grouped[g].tag,
             problems |-> grouped[g].probs,
             notes |-> "Sourced from "
                       \o (IF source_url # "" THEN source_url
                           ELSE "additional source")]]

extract_patterns_from_next_questions(next_data, source_url) ==
    LET collected == _collect_questions(next_data, source_url)
    IN  IF collected.raised THEN [raised |-> TRUE, value |-> << >>]
        ELSE IF Len(collected.value) = 0
        THEN [raised |-> FALSE, value |-> << >>]
        ELSE [raised |-> FALSE,
              value |-> GroupedPatterns(collected.value, source_url)]

(***************************************************************************)
(* The fetches.  An HTTP response is a record: kind is "conn_error" (the   *)
(* request raised), "http_error" (raise_for_status raised) or "ok".  A     *)
(* fetch gives [raised, value]: raised says that an exception leaves the   *)
(* function.                                                               *)
(***************************************************************************)

\* html = None; None and "" are both falsy
NoHtml ==
    [text_empty |-> TRUE, script |-> "absent", next_data |-> JsonNull,
     blocks |-> << >>]

FALLBACK_PATTERNS_URL ==
    "https://raw.githubusercontent.com/SeanPrashad/leetcode-patterns/master/src/data/leetcode-patterns.json"

\* the User-Agent of the headers built in fetch_html
FetchHtmlUserAgent ==
    "leetcode-patterns-aggregator/0.1 (+https://github.com/)"

\* sess = session or requests.Session(): run passes no session, and the
\* default headers of a new requests.Session name the library
SessionUserAgent == "python-requests"

\* session.get(url, headers=..., timeout=...): the headers of the call are
\* laid over those of the session; headers is the dict of the call, << >>
\* when the call passes none
SessionGet(url, headers, timeout) ==
    [url |-> url,
     user_agent |-> IF "User-Agent" \in DOMAIN headers
                    THEN headers["User-Agent"] ELSE SessionUserAgent,
     timeout |-> timeout]

\* the request of fetch_html
FetchHtmlRequest(url) ==
    SessionGet(url, [k \in {"User-Agent"} |-> FetchHtmlUserAgent], 30)

\* the request of fetch_fallback_patterns
FetchFallbackRequest == SessionGet(FALLBACK_PATTERNS_URL, << >>, 30)

\* the request of one iteration of fetch_additional_sources
FetchAdditionalRequest(url) == SessionGet(url, << >>, 30)

fetch_html(resp) ==
    IF resp.kind # "ok" THEN [raised |-> TRUE, value |-> NoHtml]
    ELSE [raised |-> FALSE, value |-> resp.page]

\* fetch_fallback_patterns without its try / except
fetch_fallback_patterns_NoTry(resp) ==
    IF resp.kind # "ok" \/ resp.json = "bad"
    THEN [raised |-> TRUE, value |-> << >>]
    ELSE IF resp.json = "list" THEN [raised |-> FALSE, value |-> resp.data]
    ELSE [raised |-> FALSE, value |-> << >>]

\* resp.json() raises when the body is not JSON (json = "bad"); the except
\* clause turns every exception into []
fetch_fallback_patterns(resp) ==
    IF resp.kind # "ok" \/ resp.json = "bad"
    THEN [raised |-> FALSE, value |-> << >>]
    ELSE IF resp.json = "list" THEN [raised |-> FALSE, value |-> resp.data]
    ELSE [raised |-> FALSE, value |-> << >>]

\* file: env says whether FALLBACK_PATTERNS_FILE is set, exists whether the
\* path exists, content is "unreadable", "bad" (not JSON), "other" (JSON,
\* not a list) or "list"
load_local_fallback(file) ==
    IF ~file.env \/ ~file.exists THEN [raised |-> FALSE, value |-> << >>]
    ELSE IF file.content \in {"unreadable", "bad"}
    THEN [raised |-> FALSE, value |-> << >>]
    ELSE IF file.content = "list" THEN [raised |-> FALSE, value |-> file.data]
    ELSE [raised |-> FALSE, value |-> << >>]

\* the body of the loop of fetch_additional_sources for one url: what it
\* extends results by; "except Exception: continue" turns every exception
\* of the body into no entries
FetchAdditionalSource(resp, url) ==
    IF resp.kind # "ok" THEN [raised |-> FALSE, value |-> << >>]
    ELSE IF resp.content_type_json
    THEN IF resp.json = "bad" THEN [raised |-> FALSE, value |-> << >>]
         ELSE IF resp.json = "list"
         THEN [raised |-> FALSE, value |-> resp.data]
         ELSE [raised |-> FALSE, value |-> << >>]
    ELSE LET next_data == extract_next_data(resp.page)
             extracted == extract_patterns_from_next_questions(next_data, url)
         IN  IF JsonTruthy(next_data) /\ ~extracted.raised
             THEN [raised |-> FALSE, value |-> extracted.value]
             ELSE [raised |-> FALSE, value |-> << >>]

(***************************************************************************)
(* The summarizer (src/aggregator/gemini.py).  The outcome of one call of  *)
(* client.models.generate_content is a record: kind is "ok" (response is   *)
(* what came back), "client_error" (a ClientError was raised) or           *)
(* "other_error" (another exception was raised); err holds the attributes  *)
(* of the exception, 0 standing for an attribute that is absent or None.   *)
(* A response is [has_text, text_null, text]: whether it has the attribute *)
(* text, whether that is None, and the string otherwise.  A function that  *)
(* calls the model gives [calls, raised, error, ...]: the calls it made,   *)
(* whether an exception leaves it, and which.                              *)
(***************************************************************************)

DEFAULT_MODEL == "gemini-2.0-flash"

\* temperatures are kept as written in the source
DEFAULT_TEMPERATURE == "0.35"

NoError ==
    [type |-> "none", status_code |-> 0, code |-> 0, http_status |-> 0,
     not_found_in_message |-> FALSE]

AttributeError == [NoError EXCEPT !.type = "AttributeError"]

NoResponse == [has_text |-> FALSE, text_null |-> FALSE, text |-> ""]

EndsWith(s, suffix) ==
    Len(s) >= Len(suffix)
    /\ SubSeq(s, Len(s) - Len(suffix) + 1, Len(s)) = suffix

\* sep.join(parts)
Join(parts, sep) ==
    LET F[i \in 0..Len(parts)] ==
            IF i = 0 THEN ""
            ELSE LET prev == F[i - 1]
                 IN  IF i = 1 THEN parts[1] ELSE prev \o sep \o parts[i]
    IN  F[Len(parts)]

\* d.get(k, dflt): the default only stands in for an absent key
GetOr(d, k, dflt) == IF k \in DOMAIN d THEN d[k] ELSE dflt

FirstN(seq, n) == SubSeq(seq, 1, Min(n, Len(seq)))

build_prompt(pattern_name, problems, notes) ==
    LET shown == FirstN(problems, 8)
        problems_text ==
            Join([i \in 1..Len(shown) |->
                     "- " \o GetOr(shown[i], "title", "Unknown title")
                     \o " (" \o GetOr(shown[i], "difficulty", "N/A") \o ")"],
                 "\n")
    IN  "You are summarizing a LeetCode pattern for a study sheet.\n"
        \o "Pattern: " \o pattern_name \o "\n"
        \o "Context: "
        \o (IF notes # "" THEN notes ELSE "No extra notes provided.") \o "\n"
        \o "Representative problems:\n"
        \o (IF problems_text # "" THEN problems_text
            ELSE "- No problems listed.") \o "\n\n"
        \o "Write a crisp 1-2 sentence description that explains the core "
        \o "idea, when to use it, and the intuition a learner should "
        \o "remember. Avoid verbosity and avoid code. "
        \o "Keep it under 420 characters."

format_problems(problems) ==
    LET shown == FirstN(problems, 3)
        formatted ==
            [i \in 1..Len(shown) |->
                StripChars("- " \o GetOr(shown[i], "title", "Unknown title")
                           \o " (" \o GetOr(shown[i], "difficulty", "N/A")
                           \o ") " \o GetStr(shown[i], "url"),
                           Whitespace)]
    IN  IF Len(formatted) > 0 THEN Join(formatted, "\n") ELSE "-"

ModelCall(model, prompt, temperature) ==
    [model |-> model, contents |-> prompt, temperature |-> temperature]

\* status_code or code or http_status
ErrorStatus(err) ==
    IF err.status_code # 0 THEN err.status_code
    ELSE IF err.code # 0 THEN err.code
    ELSE err.http_status

IsNotFound(err) == ErrorStatus(err) = 404 \/ err.not_found_in_message

AltModel(model) ==
    IF ~EndsWith(model, "-latest") THEN model \o "-latest" ELSE DEFAULT_MODEL

\* _generate_with_fallback retrying after every ClientError
_generate_with_fallback_RetryAny(model, prompt, temperature, outcomes) ==
    LET first == ModelCall(model, prompt, temperature)
        retry == ModelCall(AltModel(model), prompt, temperature)
    IN  IF outcomes[1].kind = "ok"
        THEN [calls |-> <<first>>, raised |-> FALSE, error |-> NoError,
              response |-> outcomes[1].response]
        ELSE IF outcomes[1].kind = "client_error"
        THEN [calls |-> <<first, retry>>,
              raised |-> outcomes[2].kind # "ok",
              error |-> outcomes[2].err,
              response |-> outcomes[2].response]
        ELSE [calls |-> <<first>>, raised |-> TRUE,
              error |-> outcomes[1].err, response |-> NoResponse]

\* outcomes[1] is the outcome of the call of line 96 and outcomes[2] that of
\* the call of line 114, should it be made
_generate_with_fallback(model, prompt, temperature, outcomes) ==
    LET first == ModelCall(model, prompt, temperature)
        retry == ModelCall(AltModel(model), prompt, temperature)
    IN  IF outcomes[1].kind = "ok"
        THEN [calls |-> <<first>>, raised |-> FALSE, error |-> NoError,
              response |-> outcomes[1].response]
        ELSE IF outcomes[1].kind = "client_error"
                /\ IsNotFound(outcomes[1].err)
        THEN [calls |-> <<first, retry>>,
              raised |-> outcomes[2].kind # "ok",
              error |-> outcomes[2].err,
              response |-> outcomes[2].response]
        ELSE [calls |-> <<first>>, raised |-> TRUE,
              error |-> outcomes[1].err, response |-> NoResponse]

NoSummary == [pattern |-> "", url |-> "", summary |-> "", top_problems |-> ""]

\* response.text.strip() raises AttributeError when text is None
_summarize_single(model, pattern, temperature, outcomes) ==
    LET pattern_name == IF GetStr(pattern, "pattern") # ""
                        THEN GetStr(pattern, "pattern")
                        ELSE "Unknown Pattern"
        problems == GetList(pattern, "problems")
        prompt == build_prompt(pattern_name, problems,
                               GetStr(pattern, "notes"))
        gen == _generate_with_fallback(model, prompt, temperature, outcomes)
        stripped == IF gen.response.has_text
                    THEN StripChars(gen.response.text, Whitespace) ELSE ""
    IN  IF gen.raised
        THEN [calls |-> gen.calls, raised |-> TRUE, error |-> gen.error,
              value |-> NoSummary]
        ELSE IF gen.response.has_text /\ gen.response.text_null
        THEN [calls |-> gen.calls, raised |-> TRUE, error |-> AttributeError,
              value |-> NoSummary]
        ELSE [calls |-> gen.calls, raised |-> FALSE, error |-> NoError,
              value |-> [pattern |-> pattern_name,
                         url |-> GetStr(pattern, "url"),
                         summary |-> IF stripped # "" THEN stripped
                                     ELSE pattern_name \o ": core idea "
                                          \o "summary unavailable; review "
                                          \o "pattern notes.",
                         top_problems |-> format_problems(problems)]]

(***************************************************************************)
(* build_resources_rows (src/main.py)                                      *)
(***************************************************************************)

\* the rows of resources: name, type, link, notes
StaticResources ==
    << <<"LeetCode Patterns (Sean Prashad)",
         "Patterns",
         "https://seanprashad.com/leetcode-patterns/",
         "Canonical patterns list with curated ordering.">>,
       <<"NeetCode Roadmap",
         "Video Series",
         "https://neetcode.io/roadmap",
         "Structured topic order with explanations and code.">>,
       <<"NeetCode 150 (LeetCode list)",
         "Practice List",
         "https://leetcode.com/studyplan/neetcode-150/",
         "Concise must-do problems across topics.">>,
       <<"USACO Guide (General Techniques)",
         "Reading",
         "https://usaco.guide",
         "Good deep dives on data structures/techniques.">>,
       <<"CP Handbook (KACTL)",
         "Reference",
         "https://kactl.io/",
         "Short implementations and explanations for advanced topics.">> >>

StaticHints ==
    << "Prove monotonicity before binary search; test mid bias and termination carefully.",
       "For sliding window, define what makes a window valid and how to shrink.",
       "For DP, write state, transition, base case; test small n; consider memory optimize.",
       "Monotonic stack: store indices; think 'next greater/smaller' patterns.",
       "Graph cycles: DFS colors or union-find; for DAG order use topo sort.",
       "Heaps: when you need top-k or running best; min-heap vs max-heap tradeoffs.",
       "Trie for prefix problems; store counts/ends to speed lookups.",
       "Union-Find: path compression + union by rank; useful for connectivity and Kruskal.",
       "Prefix sums/diffs: convert range updates/queries to O(1)." >>

LineBreaks == {"\n", "\r"}

\* str.splitlines(): a line ends at "\n", at "\r" or at "\r\n" (one break),
\* and a final break opens no line
SplitLines(text) ==
    LET ends == {i \in 1..Len(text) :
                    /\ Ch(text, i) \in LineBreaks
                    /\ ~(Ch(text, i) = "\n" /\ i > 1 /\ Ch(text, i - 1) = "\r")}
        After(i) == IF Ch(text, i) = "\r" /\ i < Len(text)
                       /\ Ch(text, i + 1) = "\n"
                    THEN i + 2 ELSE i + 1
        End(k) == CHOOSE i \in ends : Cardinality({j \in ends : j <= i}) = k
        Start(k) == IF k = 1 THEN 1 ELSE After(End(k - 1))
        n == Cardinality(ends)
        closed == [k \in 1..n |->
                      IF Start(k) < End(k)
                      THEN SubSeq(text, Start(k), End(k) - 1) ELSE ""]
    IN  IF Start(n + 1) <= Len(text)
        THEN Append(closed, SubSeq(text, Start(n + 1), Len(text)))
        ELSE closed

\* line.strip("-* ").strip() with the bullet character in the place of the
\* asterisk; the strings of the model are ASCII, and so are its tips
TipOf(line) == StripChars(StripChars(line, {"-", " "}), Whitespace)

TipsPrompt(patterns) ==
    LET shown == FirstN(patterns, 12)
    IN  "Give 5 concise LeetCode study tips tailored to these patterns: "
        \o Join([i \in 1..Len(shown) |-> GetOr(shown[i], "pattern", "")],
                ", ")
        \o ". Keep each tip under 90 chars, no numbering."

ResourceRows(hints) ==
    << <<"Resources", "Type", "Link", "Notes">> >>
    \o StaticResources
    \o << << >>, <<"Techniques & Hints">>, <<"Hint">> >>
    \o [i \in 1..Len(hints) |-> <<hints[i]>>]

\* build_resources_rows without its try / except
build_resources_rows_NoTry(model, patterns, outcomes) ==
    LET gen == _generate_with_fallback(model, TipsPrompt(patterns), "0.2",
                                       outcomes)
        text == IF gen.response.has_text THEN gen.response.text ELSE ""
        lines == SplitLines(text)
        tips == SelectSeq([i \in 1..Len(lines) |-> TipOf(lines[i])],
                          LAMBDA tip : tip # "")
    IN  IF gen.raised \/ (gen.response.has_text /\ gen.response.text_null)
        THEN [calls |-> gen.calls, raised |-> TRUE, rows |-> << >>]
        ELSE [calls |-> gen.calls, raised |-> FALSE,
              rows |-> ResourceRows(StaticHints \o tips)]

\* an exception of the model call, and the AttributeError of
\* None.splitlines(), end the try block before any tip is appended
build_resources_rows(model, patterns, outcomes) ==
    LET gen == _generate_with_fallback(model, TipsPrompt(patterns), "0.2",
                                       outcomes)
        text == IF gen.response.has_text THEN gen.response.text ELSE ""
        lines == SplitLines(text)
        tips == SelectSeq([i \in 1..Len(lines) |-> TipOf(lines[i])],
                          LAMBDA tip : tip # "")
    IN  IF gen.raised \/ (gen.response.has_text /\ gen.response.text_null)
        THEN [calls |-> gen.calls, raised |-> FALSE,
              rows |-> ResourceRows(StaticHints)]
        ELSE [calls |-> gen.calls, raised |-> FALSE,
              rows |-> ResourceRows(StaticHints \o tips)]

(***************************************************************************)
(* Bounds and the inputs of the model                                      *)
(***************************************************************************)

\* calls of scrape_patterns in one run of the interpreter
MaxCalls == 2

EntryTwoPointers ==
    [pattern |-> "Two Pointers",
     problems |-> << [title |-> "3sum", difficulty |-> "Medium"],
                     [name |-> "Sort Colors", level |-> "Medium",
                      link |-> "https://leetcode.com/problems/sort-colors/"] >>]

EntryNoName ==
    [name |-> "", url |-> "https://example.org/unnamed",
     problems |-> << [title |-> "Two Sum"] >>]

EntryNoProblems == [title |-> "Greedy", questions |-> << >>]

EntryGreedy ==
    [pattern |-> "Greedy", notes |-> "Take the locally best choice.",
     problems |-> << [title |-> "Gas Station", difficulty |-> "Medium"] >>]

EntryGreedyUpper ==
    [name |-> "GREEDY", link |-> "https://example.org/greedy",
     questions |-> << [question |-> "Jump Game", tier |-> "Medium"] >>]

EntryGraphs ==
    [title |-> "Graphs", description |-> "Traversals.",
     problems |-> << [url |-> "https://example.org/p/1"] >>]

Scalar == [t |-> "scalar", truthy |-> TRUE]

PayloadTwoPointers ==
    [t |-> "dict", keys |-> <<"props", "page">>,
     vals |-> << [t |-> "dict", keys |-> <<"pageProps">>,
                  vals |-> << [t |-> "dict", keys |-> <<"patterns">>,
                               vals |-> << [t |-> "entries",
                                            items |-> <<EntryTwoPointers>>]
                                        >>] >>],
                 Scalar >>]

PayloadInvalid ==
    [t |-> "list",
     items |-> << Scalar,
                  [t |-> "entries",
                   items |-> <<EntryNoName, EntryNoProblems>>] >>]

PayloadNoPatterns ==
    [t |-> "dict", keys |-> <<"buildId", "patterns">>,
     vals |-> << Scalar, [t |-> "entries", items |-> << >>] >>]

PayloadEmpty == [t |-> "dict", keys |-> << >>, vals |-> << >>]

Headings ==
    << [header |-> "Greedy", items |-> <<"Jump Game", "", "Gas Station">>],
       [header |-> "", items |-> <<"Orphan item">>],
       [header |-> "Trie", items |-> << >>] >>

Page(script, next_data, blocks) ==
    [text_empty |-> FALSE, script |-> script, next_data |-> next_data,
     blocks |-> blocks]

Pages ==
    { [text_empty |-> TRUE, script |-> "absent", next_data |-> JsonNull,
       blocks |-> << >>],
      Page("absent", JsonNull, << >>),
      Page("absent", JsonNull, Headings),
      Page("bad", JsonNull, Headings),
      Page("json", PayloadTwoPointers, Headings),
      Page("json", PayloadInvalid, << >>),
      Page("json", PayloadNoPatterns, << >>),
      Page("json", PayloadEmpty, Headings) }

PrimaryResponses ==
    { [kind |-> "conn_error", page |-> NoHtml],
      [kind |-> "http_error", page |-> NoHtml] }
    \cup { [kind |-> "ok", page |-> p] : p \in Pages }

JsonResponse(json, data) == [kind |-> "ok", json |-> json, data |-> data]

MirrorResponses ==
    { [kind |-> "conn_error", json |-> "bad", data |-> << >>],
      [kind |-> "http_error", json |-> "bad", data |-> << >>],
      JsonResponse("bad", << >>),
      JsonResponse("other", << >>),
      JsonResponse("list", << >>),
      JsonResponse("list", <<EntryNoProblems>>),
      JsonResponse("list", <<EntryGreedy, EntryGreedyUpper>>) }

LocalFiles ==
    { [env |-> FALSE, exists |-> FALSE, content |-> "bad", data |-> << >>],
      [env |-> TRUE, exists |-> FALSE, content |-> "bad", data |-> << >>],
      [env |-> TRUE, exists |-> TRUE, content |-> "unreadable",
       data |-> << >>],
      [env |-> TRUE, exists |-> TRUE, content |-> "bad", data |-> << >>],
      [env |-> TRUE, exists |-> TRUE, content |-> "other", data |-> << >>],
      [env |-> TRUE, exists |-> TRUE, content |-> "list", data |-> << >>],
      [env |-> TRUE, exists |-> TRUE, content |-> "list",
       data |-> <<EntryGraphs>>] }

DEFAULT_ADDITIONAL_SOURCES ==
    <<"https://neetcode.io/practice/practice/neetcode150">>

\* the values of ADDITIONAL_PATTERNS_URLS: unset, or two urls in either order
AdditionalUrlLists ==
    { DEFAULT_ADDITIONAL_SOURCES,
      <<"https://example.org/a.json", "https://example.org/b">>,
      <<"https://example.org/b", "https://example.org/a.json">> }

QuestionsPayload ==
    [t |-> "dict", keys |-> <<"questions">>,
     vals |-> << [t |-> "entries",
                  items |-> << [title |-> "Number of Islands",
                                difficulty |-> "Medium",
                                slug |-> "number-of-islands",
                                tags |-> << [kind |-> "str",
                                             s |-> "Graphs"] >>] >>] >>]

SourceResponse(kind, ctjson, json, data, page) ==
    [kind |-> kind, content_type_json |-> ctjson, json |-> json,
     data |-> data, page |-> page]

\* what the server of each url can answer: the .json url serves JSON, the
\* others serve pages
AdditionalResponses(url) ==
    IF url = "https://example.org/a.json"
    THEN { SourceResponse("conn_error", FALSE, "bad", << >>, NoHtml),
           SourceResponse("ok", TRUE, "bad", << >>, NoHtml),
           SourceResponse("ok", TRUE, "other", << >>, NoHtml),
           SourceResponse("ok", TRUE, "list", <<EntryGreedyUpper>>, NoHtml) }
    ELSE { SourceResponse("http_error", FALSE, "bad", << >>, NoHtml),
           SourceResponse("ok", FALSE, "bad", << >>,
                          Page("absent", JsonNull, Headings)),
           SourceResponse("ok", FALSE, "bad", << >>,
                          Page("json", QuestionsPayload, << >>)) }

BaseUrls == {DEFAULT_BASE_SITE}

(***************************************************************************)
(* scrape_patterns, one step per call it makes                             *)
(***************************************************************************)

VARIABLES
    pc,              \* the position in scrape_patterns, "idle" between calls
    calls,           \* calls of scrape_patterns started so far
    allow_fallback,  \* the argument of the current call
    base_url,        \* base_url or load_base_site()
    html,            \* the local html
    patterns,        \* the local patterns
    pool_source,     \* where patterns was taken from
    trace,           \* the sources asked in this call, in order
    requests,        \* the HTTP requests sent in this call, in order
    urls,            \* fetch_additional_sources: the urls left to fetch
    results,         \* fetch_additional_sources: the local results
    LOCAL_MINIMAL_FALLBACK,  \* the module-level list
    returned,        \* what the call returned, once it has
    raised           \* an exception left scrape_patterns

scrapeVars ==
    <<pc, calls, allow_fallback, base_url, html, patterns, pool_source,
      trace, requests, urls, results, LOCAL_MINIMAL_FALLBACK, returned,
      raised>>

(***************************************************************************)
(* Calls of single functions: fn names the function, fn_arg holds its      *)
(* arguments, fn_out its result once fn_done.                              *)
(***************************************************************************)

VARIABLES fn, fn_arg, fn_out, fn_done

fnVars == <<fn, fn_arg, fn_out, fn_done>>

\* the state of one run of main.run: where it is, what scrape_patterns
\* returned, self.model of the summarizer, the summaries so far, the calls of
\* the model so far, the merged records, the rows of the Resources tab, the
\* titles the writer knows to exist, the record the writer is at, the calls
\* of the Sheets API so far, and the exception that ended the run
VARIABLES
    run_pc, scraped, model, summarized, llm_calls, enriched, resources_rows,
    existing_titles, tab_index, sheet_calls, run_error,
    clear_first,     \* the argument of push_pattern_sheets
    tabs,            \* the spreadsheet: the cell values of each tab, by title
    tabs_before      \* the spreadsheet before the run

runVars ==
    <<run_pc, scraped, model, summarized, llm_calls, enriched,
      resources_rows, existing_titles, tab_index, sheet_calls, run_error,
      clear_first, tabs, tabs_before>>

\* the variables of the spreadsheet and of the call that writes it
sheetVars == <<clear_first, tabs, tabs_before>>

vars == <<scrapeVars, fnVars, runVars>>

\* a spreadsheet as it is created: one empty tab
NewSpreadsheet == [t \in {"Sheet1"} |-> << >>]

\* run has not started; it calls push_pattern_sheets with clear_first=True
RunIdle ==
    /\ run_pc = "idle"
    /\ scraped = << >>
    /\ model = ""
    /\ summarized = << >>
    /\ llm_calls = << >>
    /\ enriched = << >>
    /\ resources_rows = << >>
    /\ existing_titles = {}
    /\ tab_index = 0
    /\ sheet_calls = << >>
    /\ run_error = "none"
    /\ clear_first = TRUE

NoRun ==
    /\ RunIdle
    /\ tabs = NewSpreadsheet
    /\ tabs_before = NewSpreadsheet

NoCall ==
    /\ fn = "none"
    /\ fn_arg = << >>
    /\ fn_out = << >>
    /\ fn_done = FALSE

Event(step, failed, data) == [step |-> step, failed |-> failed, data |-> data]

ScrapeInit ==
    /\ pc = "idle"
    /\ calls = 0
    /\ allow_fallback = TRUE
    /\ base_url = DEFAULT_BASE_SITE
    /\ html = NoHtml
    /\ patterns = << >>
    /\ pool_source = "none"
    /\ trace = << >>
    /\ requests = << >>
    /\ urls = << >>
    /\ results = << >>
    /\ LOCAL_MINIMAL_FALLBACK = MinimalFallbackLiteral
    /\ returned = << >>
    /\ raised = FALSE

\* scrape_patterns is entered; urls is what ADDITIONAL_PATTERNS_URLS gives in
\* the environment of this call
Call ==
    /\ pc = "idle"
    /\ calls < MaxCalls
    /\ calls' = calls + 1
    /\ allow_fallback' \in BOOLEAN
    /\ base_url' \in BaseUrls
    /\ html' = NoHtml
    /\ patterns' = << >>
    /\ pool_source' = "none"
    /\ trace' = << >>
    /\ requests' = << >>
    /\ urls' \in AdditionalUrlLists
    /\ results' = << >>
    /\ returned' = << >>
    /\ pc' = "fetch_html"
    /\ UNCHANGED <<fnVars, runVars, LOCAL_MINIMAL_FALLBACK, raised>>

\* html = fetch_html(sess, base_url) inside try / except Exception
FetchHtml ==
    /\ pc = "fetch_html"
    /\ \E resp \in PrimaryResponses :
          LET r == fetch_html(resp)
          IN  /\ html' = IF r.raised THEN NoHtml ELSE r.value
              /\ trace' = Append(trace, Event("primary", resp.kind # "ok",
                                              << >>))
    /\ requests' = Append(requests, FetchHtmlRequest(base_url))
    /\ pc' = "extract"
    /\ UNCHANGED <<fnVars, runVars, calls, allow_fallback, base_url, patterns,
                   pool_source, urls, results, LOCAL_MINIMAL_FALLBACK,
                   returned, raised>>

\* PrimaryPatterns with the headings of the page added to the payload's list
PrimaryPatterns_Merged(h) ==
    LET next_data == IF ~h.text_empty THEN extract_next_data(h) ELSE JsonNull
        fromPayload == IF JsonTruthy(next_data)
                       THEN extract_patterns_from_next_data(next_data)
                       ELSE << >>
    IN  IF ~h.text_empty
        THEN [source |-> IF Len(fromPayload) = 0 THEN "heuristic"
                         ELSE "payload",
              value |-> fromPayload \o extract_patterns_from_html(h)]
        ELSE [source |-> "payload", value |-> fromPayload]

\* the payload, then the heading heuristic
PrimaryPatterns(h) ==
    LET next_data == IF ~h.text_empty THEN extract_next_data(h) ELSE JsonNull
        fromPayload == IF JsonTruthy(next_data)
                       THEN extract_patterns_from_next_data(next_data)
                       ELSE << >>
    IN  IF Len(fromPayload) = 0 /\ ~h.text_empty
        THEN [source |-> "heuristic", value |-> extract_patterns_from_html(h)]
        ELSE [source |-> "payload", value |-> fromPayload]

Extract ==
    /\ pc = "extract"
    /\ LET p == PrimaryPatterns(html)
       IN  /\ patterns' = p.value
           /\ pool_source' = IF Len(p.value) > 0 THEN p.source ELSE "none"
           /\ pc' = IF Len(p.value) = 0 /\ allow_fallback
                    THEN "fallback_mirror" ELSE "additional"
    /\ UNCHANGED <<fnVars, runVars, calls, allow_fallback, base_url, html,
                   trace, requests, urls, results, LOCAL_MINIMAL_FALLBACK,
                   returned, raised>>

\* FetchFallbackPatterns followed by the local file whatever the mirror gave
FetchFallbackPatterns_NoShortCircuit ==
    /\ pc = "fallback_mirror"
    /\ \E resp \in MirrorResponses :
          LET r == fetch_fallback_patterns(resp)
          IN  /\ raised' = r.raised
              /\ trace' = Append(trace,
                                 Event("mirror",
                                       resp.kind # "ok" \/ resp.json = "bad",
                                       r.value))
              /\ patterns' = r.value
              /\ pool_source' = IF Len(r.value) > 0 THEN "mirror"
                                ELSE pool_source
              /\ pc' = "fallback_local"
    /\ requests' = Append(requests, FetchFallbackRequest)
    /\ UNCHANGED <<fnVars, runVars, calls, allow_fallback, base_url, html,
                   urls, results, LOCAL_MINIMAL_FALLBACK, returned>>

\* the first operand of the "or" chain
FetchFallbackPatterns ==
    /\ pc = "fallback_mirror"
    /\ \E resp \in MirrorResponses :
          LET r == fetch_fallback_patterns(resp)
          IN  /\ raised' = r.raised
              /\ trace' = Append(trace,
                                 Event("mirror",
                                       resp.kind # "ok" \/ resp.json = "bad",
                                       r.value))
              /\ IF r.raised
                 THEN /\ pc' = "raised"
                      /\ UNCHANGED <<patterns, pool_source>>
                 ELSE IF Len(r.value) > 0
                 THEN /\ patterns' = r.value
                      /\ pool_source' = "mirror"
                      /\ pc' = "additional"
                 ELSE /\ pc' = "fallback_local"
                      /\ UNCHANGED <<patterns, pool_source>>
    /\ requests' = Append(requests, FetchFallbackRequest)
    /\ UNCHANGED <<fnVars, runVars, calls, allow_fallback, base_url, html,
                   urls, results, LOCAL_MINIMAL_FALLBACK, returned>>

\* the second operand
LoadLocalFallback ==
    /\ pc = "fallback_local"
    /\ \E file \in LocalFiles :
          LET r == load_local_fallback(file)
          IN  /\ raised' = r.raised
              /\ trace' = Append(trace,
                                 Event("local",
                                       file.env /\ file.exists
                                       /\ file.content
                                              \in {"unreadable", "bad"},
                                       r.value))
              /\ IF r.raised
                 THEN /\ pc' = "raised"
                      /\ UNCHANGED <<patterns, pool_source>>
                 ELSE IF Len(r.value) > 0
                 THEN /\ patterns' = r.value
                      /\ pool_source' = "local"
                      /\ pc' = "additional"
                 ELSE /\ pc' = "fallback_builtin"
                      /\ UNCHANGED <<patterns, pool_source>>
    /\ UNCHANGED <<fnVars, runVars, calls, allow_fallback, base_url, html,
                   requests, urls, results, LOCAL_MINIMAL_FALLBACK,
                   returned>>

\* the third operand: patterns is bound to the module-level list itself
UseMinimalFallback ==
    /\ pc = "fallback_builtin"
    /\ patterns' = LOCAL_MINIMAL_FALLBACK
    /\ pool_source' = "builtin"
    /\ trace' = Append(trace, Event("builtin", FALSE, LOCAL_MINIMAL_FALLBACK))
    /\ pc' = "additional"
    /\ UNCHANGED <<fnVars, runVars, calls, allow_fallback, base_url, html,
                   requests, urls, results, LOCAL_MINIMAL_FALLBACK,
                   returned, raised>>

\* FetchAdditional with the try around the whole loop: a failure ends the
\* loop with nothing collected
FetchAdditional_TryAroundLoop ==
    /\ pc = "additional"
    /\ Len(urls) > 0
    /\ \E resp \in AdditionalResponses(Head(urls)) :
          LET r == FetchAdditionalSource(resp, Head(urls))
          IN  /\ raised' = r.raised
              /\ results' = IF resp.kind # "ok"
                                \/ (resp.content_type_json
                                    /\ resp.json = "bad")
                             THEN << >> ELSE results \o r.value
              /\ trace' = Append(trace,
                                 Event("additional",
                                       resp.kind # "ok"
                                       \/ (resp.content_type_json
                                           /\ resp.json = "bad"),
                                       r.value))
              /\ pc' = IF r.raised THEN "raised" ELSE "additional"
    /\ urls' = IF trace'[Len(trace')].failed THEN << >> ELSE Tail(urls)
    /\ requests' = Append(requests, FetchAdditionalRequest(Head(urls)))
    /\ UNCHANGED <<fnVars, runVars, calls, allow_fallback, base_url, html,
                   patterns, pool_source, LOCAL_MINIMAL_FALLBACK, returned>>

\* one iteration of the loop of fetch_additional_sources
FetchAdditional ==
    /\ pc = "additional"
    /\ Len(urls) > 0
    /\ \E resp \in AdditionalResponses(Head(urls)) :
          LET r == FetchAdditionalSource(resp, Head(urls))
          IN  /\ raised' = r.raised
              /\ results' = results \o r.value
              /\ trace' = Append(trace,
                                 Event("additional",
                                       resp.kind # "ok"
                                       \/ (resp.content_type_json
                                           /\ resp.json = "bad"),
                                       r.value))
              /\ pc' = IF r.raised THEN "raised" ELSE "additional"
    /\ urls' = Tail(urls)
    /\ requests' = Append(requests, FetchAdditionalRequest(Head(urls)))
    /\ UNCHANGED <<fnVars, runVars, calls, allow_fallback, base_url, html,
                   patterns, pool_source, LOCAL_MINIMAL_FALLBACK, returned>>

\* Pipeline without the filter on pattern and problems
Pipeline_NoFilter(pool, url) ==
    LET normalized == [i \in 1..Len(pool) |-> normalize_pattern(pool[i], url)]
    IN  enrich_problem_lists(dedupe_patterns(normalized), 8)

\* lines 567-569 on the merged pool
Pipeline(pool, url) ==
    LET normalized == [i \in 1..Len(pool) |-> normalize_pattern(pool[i], url)]
        kept == SelectSeq(normalized,
                          LAMBDA p : p.pattern # "" /\ Len(p.problems) > 0)
    IN  enrich_problem_lists(dedupe_patterns(kept), 8)

\* patterns += results (in place: the built-in list grows when patterns is
\* bound to it), then normalisation, deduplication, enrichment and return
Finish ==
    /\ pc = "additional"
    /\ Len(urls) = 0
    /\ patterns' = patterns \o results
    /\ LOCAL_MINIMAL_FALLBACK' =
           IF pool_source = "builtin" THEN LOCAL_MINIMAL_FALLBACK \o results
           ELSE LOCAL_MINIMAL_FALLBACK
    /\ returned' = Pipeline(patterns \o results, base_url)
    /\ pc' = "done"
    /\ UNCHANGED <<fnVars, runVars, calls, allow_fallback, base_url, html,
                   pool_source, trace, requests, urls, results, raised>>

\* the caller takes the result
Return ==
    /\ pc = "done"
    /\ pc' = "idle"
    /\ UNCHANGED <<fnVars, runVars, calls, allow_fallback, base_url, html,
                   patterns, pool_source, trace, requests, urls, results,
                   LOCAL_MINIMAL_FALLBACK, returned, raised>>

ScrapeNext ==
    \/ Call
    \/ FetchHtml
    \/ Extract
    \/ FetchFallbackPatterns
    \/ LoadLocalFallback
    \/ UseMinimalFallback
    \/ FetchAdditional
    \/ Finish
    \/ Return

\* the sequences over S of length at most n
BoundedSeq(S, n) == UNION {[1..k -> S] : k \in 0..n}

\* the longest list of patterns passed to dedupe_patterns
MaxDedupeLen == 3

\* the longest problems list of a generated input
MaxProblems == 3

Init == ScrapeInit /\ NoCall /\ NoRun

Next == ScrapeNext

Spec == Init /\ [][Next]_vars

(***************************************************************************)
(* dedupe_patterns                                                         *)
(***************************************************************************)

DedupeRecords ==
    { [pattern |-> n, url |-> "", notes |-> "",
       problems |-> << [title |-> t, difficulty |-> "Easy", url |-> "u"] >>] :
        n \in {"Greedy", "GREEDY", "greedy", "Trie"},
        t \in {"Jump Game", "Gas Station"} }

DedupeInit ==
    /\ ScrapeInit
    /\ NoRun
    /\ fn = "dedupe_patterns"
    /\ fn_arg \in {[patterns |-> ps] : ps \in BoundedSeq(DedupeRecords,
                                                         MaxDedupeLen)}
    /\ fn_out = << >>
    /\ fn_done = FALSE

DedupeCall ==
    /\ fn = "dedupe_patterns"
    /\ ~fn_done
    /\ fn_out' = dedupe_patterns(fn_arg.patterns)
    /\ fn_done' = TRUE
    /\ UNCHANGED <<fn, fn_arg, scrapeVars, runVars>>

SpecDedupe == DedupeInit /\ [][DedupeCall]_vars

(***************************************************************************)
(* enrich_problem_lists                                                    *)
(***************************************************************************)

EnrichTitles == {"3sum", "Move Zeroes", "Sort Colors"}

EnrichNames == {"Two Pointers", "Topological Sort", "two pointers"}

MinCounts == {1, 2, 8}

ProblemOf(t) ==
    [title |-> t, difficulty |-> "Medium",
     url |-> LeetcodeProblemsPrefix \o slugify(t) \o "/"]

\* a pattern that already holds eight problems, none of them in the library
PatternOfEight ==
    [pattern |-> "Two Pointers", url |-> "", notes |-> "",
     problems |-> [i \in 1..8 |->
                      ProblemOf("Custom " \o Ch("12345678", i))]]

EnrichPatterns ==
    { [pattern |-> n, url |-> "", notes |-> "",
       problems |-> [i \in 1..Len(ts) |-> ProblemOf(ts[i])]] :
        n \in EnrichNames, ts \in BoundedSeq(EnrichTitles, MaxProblems) }
    \cup {PatternOfEight}

EnrichInputs ==
    {<< >>} \cup {<<p>> : p \in EnrichPatterns}
    \cup {<<p, q>> : p \in EnrichPatterns, q \in {PatternOfEight}}
    \cup {<<q, p>> : p \in EnrichPatterns,
                     q \in {[PatternOfEight EXCEPT !.pattern = "Graphs"]}}

EnrichInit ==
    /\ ScrapeInit
    /\ NoRun
    /\ fn = "enrich_problem_lists"
    /\ fn_arg \in {[patterns |-> ps, min_count |-> m] :
                      ps \in EnrichInputs, m \in MinCounts}
    /\ fn_out = << >>
    /\ fn_done = FALSE

EnrichCall ==
    /\ fn = "enrich_problem_lists"
    /\ ~fn_done
    /\ fn_out' = enrich_problem_lists(fn_arg.patterns, fn_arg.min_count)
    /\ fn_done' = TRUE
    /\ UNCHANGED <<fn, fn_arg, scrapeVars, runVars>>

SpecEnrich == EnrichInit /\ [][EnrichCall]_vars

(***************************************************************************)
(* normalize_problems                                                      *)
(***************************************************************************)

RawProblems ==
    { [title |-> "Two Sum", difficulty |-> "Easy",
       url |-> "https://leetcode.com/problems/two-sum/"],
      [name |-> "3Sum!! Two Pointers", level |-> "Medium"],
      [question |-> "LRU Cache", tier |-> "Hard", link |-> "https://x/lru"],
      [title |-> "", name |-> "", difficulty |-> "", url |-> ""],
      [difficulty |-> "Easy"],
      [title |-> " ", leetcode_url |-> "https://x/blank"],
      [slug |-> "no-title"] }

NormalizeProblemsInit ==
    /\ ScrapeInit
    /\ NoRun
    /\ fn = "normalize_problems"
    /\ fn_arg \in {[problems |-> ps] : ps \in BoundedSeq(RawProblems,
                                                         MaxProblems)}
    /\ fn_out = << >>
    /\ fn_done = FALSE

NormalizeProblemsCall ==
    /\ fn = "normalize_problems"
    /\ ~fn_done
    /\ fn_out' = normalize_problems(fn_arg.problems)
    /\ fn_done' = TRUE
    /\ UNCHANGED <<fn, fn_arg, scrapeVars, runVars>>

SpecNormalizeProblems ==
    NormalizeProblemsInit /\ [][NormalizeProblemsCall]_vars

(***************************************************************************)
(* slugify                                                                 *)
(***************************************************************************)

\* the longest string passed to slugify
MaxSlugLen == 4

SlugAlphabet == {"a", "B", "7", " ", "-", "!"}

RECURSIVE StringsUpTo(_, _)
\* the strings over the characters cs of length at most n
StringsUpTo(cs, n) ==
    IF n = 0 THEN {""}
    ELSE LET shorter == StringsUpTo(cs, n - 1)
         IN  shorter \cup {s \o c : s \in shorter, c \in cs}

SlugifyInit ==
    /\ ScrapeInit
    /\ NoRun
    /\ fn = "slugify"
    /\ fn_arg \in {[value |-> v] : v \in StringsUpTo(SlugAlphabet, MaxSlugLen)}
    /\ fn_out = << >>
    /\ fn_done = FALSE

SlugifyCall ==
    /\ fn = "slugify"
    /\ ~fn_done
    /\ fn_out' = <<slugify(fn_arg.value)>>
    /\ fn_done' = TRUE
    /\ UNCHANGED <<fn, fn_arg, scrapeVars, runVars>>

SpecSlugify == SlugifyInit /\ [][SlugifyCall]_vars

(***************************************************************************)
(* sanitize_title (src/sheet/sheet_populator.py)                           *)
(***************************************************************************)

\* the characters a tab title may not hold
Banned == {"/", "\\", "?", "*", "[", "]"}

\* the number of characters kept of a title
TitleCap == 90

RECURSIVE KeepRange(_, _, _, _)
\* the characters of s[lo..hi] that are not in cs, in order
KeepRange(s, cs, lo, hi) ==
    IF lo > hi THEN ""
    ELSE IF lo = hi THEN (IF Ch(s, lo) \in cs THEN "" ELSE Ch(s, lo))
    ELSE LET mid == (lo + hi) \div 2
         IN  KeepRange(s, cs, lo, mid) \o KeepRange(s, cs, mid + 1, hi)

\* "".join(ch for ch in s if ch not in cs)
RemoveChars(s, cs) == KeepRange(s, cs, 1, Len(s))

sanitize_title_NoDefault(title) ==
    LET sanitized == StripChars(RemoveChars(title, Banned), Whitespace)
    IN  SubSeq(sanitized, 1, Min(TitleCap, Len(sanitized)))

sanitize_title(title) ==
    LET sanitized == StripChars(RemoveChars(title, Banned), Whitespace)
        cut == SubSeq(sanitized, 1, Min(TitleCap, Len(sanitized)))
    IN  IF cut = "" THEN "Pattern" ELSE cut

\* the longest generated part of a title
MaxTitleLen == 3

TitleAlphabet == {"a", " ", "/", "\\", "?", "*", "[", "]"}

\* 89 characters
TitlePad ==
    "Longest Substring Without Repeating Characters And Other Sliding "
    \o "Window Warm Up Problems."

\* short titles, and titles around the cap: a generated part before and
\* after 89 fixed characters
TitleInputs ==
    LET parts == StringsUpTo(TitleAlphabet, MaxTitleLen)
    IN  parts \cup {TitlePad \o s : s \in parts}
              \cup {s \o TitlePad : s \in parts}

SanitizeTitleInit ==
    /\ ScrapeInit
    /\ NoRun
    /\ fn = "sanitize_title"
    /\ fn_arg \in {[title |-> t] : t \in TitleInputs}
    /\ fn_out = << >>
    /\ fn_done = FALSE

SanitizeTitleCall ==
    /\ fn = "sanitize_title"
    /\ ~fn_done
    /\ fn_out' = <<sanitize_title(fn_arg.title)>>
    /\ fn_done' = TRUE
    /\ UNCHANGED <<fn, fn_arg, scrapeVars, runVars>>

SpecSanitizeTitle == SanitizeTitleInit /\ [][SanitizeTitleCall]_vars

(***************************************************************************)
(* normalize_pattern                                                       *)
(***************************************************************************)

NoFields == [k \in {} |-> ""]

\* the name fields of an entry: absent, empty, or under one or two keys
EntryNames ==
    { NoFields,
      [name |-> ""],
      [pattern |-> "Two Pointers"],
      [name |-> "Graphs  DFS"],
      [pattern |-> "", title |-> "Greedy"] }

\* the url fields of an entry
EntryUrls ==
    { NoFields,
      [url |-> ""],
      [url |-> "https://example.org/explicit"],
      [link |-> "https://example.org/link"],
      [url |-> "https://example.org/explicit",
       link |-> "https://example.org/link"] }

EntryProblems ==
    { NoFields,
      [problems |-> << [title |-> "Two Sum"] >>],
      [questions |-> << [name |-> "3Sum", level |-> "Medium"] >>] }

NormalizePatternBaseUrls == {DEFAULT_BASE_SITE, "https://example.org/base"}

NormalizePatternInit ==
    /\ ScrapeInit
    /\ NoRun
    /\ fn = "normalize_pattern"
    /\ fn_arg \in {[entry |-> n @@ u @@ ps, base_url |-> b] :
                      n \in EntryNames, u \in EntryUrls,
                      ps \in EntryProblems, b \in NormalizePatternBaseUrls}
    /\ fn_out = << >>
    /\ fn_done = FALSE

NormalizePatternCall ==
    /\ fn = "normalize_pattern"
    /\ ~fn_done
    /\ fn_out' = <<normalize_pattern(fn_arg.entry, fn_arg.base_url)>>
    /\ fn_done' = TRUE
    /\ UNCHANGED <<fn, fn_arg, scrapeVars, runVars>>

SpecNormalizePattern ==
    NormalizePatternInit /\ [][NormalizePatternCall]_vars

(***************************************************************************)
(* extract_patterns_from_next_questions                                    *)
(***************************************************************************)

\* the longest list of questions of a generated payload
MaxQuestions == 2

StrTag(s) == [kind |-> "str", s |-> s]

TagLists ==
    { << >>,
      <<StrTag("Graphs")>>,
      <<StrTag("Graphs"), StrTag("BFS")>>,
      <<StrTag("BFS"), StrTag("Graphs")>>,
      << [kind |-> "dict", d |-> [name |-> "Trie"]],
         [kind |-> "dict", d |-> [id |-> "7"]] >>,
      << [kind |-> "dict", d |-> [id |-> "7"]] >> }

QuestionEntries ==
    { [title |-> t, difficulty |-> "Medium", tags |-> tags] :
        t \in {"Number of Islands", "Word Search"}, tags \in TagLists }
    \cup { [title |-> "Two Sum", level |-> "Easy", slug |-> "two-sum"] }

QuestionPayloads ==
    { [t |-> "dict", keys |-> <<"buildId", "questions">>,
       vals |-> <<Scalar, [t |-> "entries", items |-> qs]>>] :
        qs \in BoundedSeq(QuestionEntries, MaxQuestions) }

NextQuestionsInit ==
    /\ ScrapeInit
    /\ NoRun
    /\ fn = "extract_patterns_from_next_questions"
    /\ fn_arg \in {[next_data |-> nd, source_url |-> u] :
                      nd \in QuestionPayloads,
                      u \in {"https://example.org/b",
                             "https://neetcode.io/practice"}}
    /\ fn_out = << >>
    /\ fn_done = FALSE

NextQuestionsCall ==
    /\ fn = "extract_patterns_from_next_questions"
    /\ ~fn_done
    /\ fn_out' = extract_patterns_from_next_questions(fn_arg.next_data,
                                                       fn_arg.source_url)
    /\ fn_done' = TRUE
    /\ UNCHANGED <<fn, fn_arg, scrapeVars, runVars>>

SpecNextQuestions == NextQuestionsInit /\ [][NextQuestionsCall]_vars

(***************************************************************************)
(* _generate_with_fallback and _summarize_single                           *)
(***************************************************************************)

Responses ==
    { NoResponse,
      [has_text |-> TRUE, text_null |-> TRUE, text |-> ""],
      [has_text |-> TRUE, text_null |-> FALSE, text |-> ""],
      [has_text |-> TRUE, text_null |-> FALSE, text |-> " \n"],
      [has_text |-> TRUE, text_null |-> FALSE,
       text |-> " Move two indices toward each other.\n"] }

Ok(response) == [kind |-> "ok", response |-> response, err |-> NoError]

Failed(kind, type, code, not_found_in_message) ==
    [kind |-> kind, response |-> NoResponse,
     err |-> [type |-> type, status_code |-> 0, code |-> code,
              http_status |-> 0,
              not_found_in_message |-> not_found_in_message]]

CallOutcomes ==
    {Ok(r) : r \in Responses}
    \cup { Failed("client_error", "ClientError", 404, TRUE),
           Failed("client_error", "ClientError", 404, FALSE),
           Failed("client_error", "ClientError", 400, TRUE),
           Failed("client_error", "ClientError", 429, FALSE),
           Failed("other_error", "ServerError", 500, FALSE) }

\* the values of self.model: the default, or what GEMINI_MODEL names
ConfiguredModels ==
    {DEFAULT_MODEL, "gemini-1.5-pro", "gemini-1.5-pro-latest"}

GenerateInit ==
    /\ ScrapeInit
    /\ NoRun
    /\ fn = "_generate_with_fallback"
    /\ fn_arg \in {[model |-> m, prompt |-> "Give 5 concise tips.",
                    temperature |-> "0.2", outcomes |-> <<o1, o2>>] :
                      m \in ConfiguredModels,
                      o1 \in CallOutcomes, o2 \in CallOutcomes}
    /\ fn_out = << >>
    /\ fn_done = FALSE

GenerateCall ==
    /\ fn = "_generate_with_fallback"
    /\ ~fn_done
    /\ fn_out' = _generate_with_fallback(fn_arg.model, fn_arg.prompt,
                                         fn_arg.temperature, fn_arg.outcomes)
    /\ fn_done' = TRUE
    /\ UNCHANGED <<fn, fn_arg, scrapeVars, runVars>>

SpecGenerate == GenerateInit /\ [][GenerateCall]_vars

\* records as scrape_patterns returns them, and one without a name
SummarizeInputs ==
    { [pattern |-> "Greedy", url |-> "https://example.org/greedy",
       notes |-> "Take the locally best choice.",
       problems |-> << ProblemOf("Jump Game"),
                       [title |-> "Gas Station", difficulty |-> "Medium",
                        url |-> ""] >>],
      [pattern |-> "Trie", url |-> "", notes |-> "", problems |-> << >>],
      [url |-> "https://example.org/unnamed",
       problems |-> << [url |-> "https://example.org/p/1"] >>] }

SummarizeSingleInit ==
    /\ ScrapeInit
    /\ NoRun
    /\ fn = "_summarize_single"
    /\ fn_arg \in {[model |-> DEFAULT_MODEL, pattern |-> p,
                    temperature |-> DEFAULT_TEMPERATURE,
                    outcomes |-> <<o1, o2>>] :
                      p \in SummarizeInputs,
                      o1 \in CallOutcomes, o2 \in CallOutcomes}
    /\ fn_out = << >>
    /\ fn_done = FALSE

SummarizeSingleCall ==
    /\ fn = "_summarize_single"
    /\ ~fn_done
    /\ fn_out' = _summarize_single(fn_arg.model, fn_arg.pattern,
                                   fn_arg.temperature, fn_arg.outcomes)
    /\ fn_done' = TRUE
    /\ UNCHANGED <<fn, fn_arg, scrapeVars, runVars>>

SpecSummarizeSingle == SummarizeSingleInit /\ [][SummarizeSingleCall]_vars

(***************************************************************************)
(* build_resources_rows                                                    *)
(***************************************************************************)

TipResponses ==
    Responses
    \cup { [has_text |-> TRUE, text_null |-> FALSE,
            text |-> "- Sort first.\n\n -- \nUse a heap for top-k\r\n"] }

TipOutcomes ==
    {Ok(r) : r \in TipResponses}
    \cup {o \in CallOutcomes : o.kind # "ok"}

\* merged records: the scraped fields and those of the summary
EnrichedLists ==
    { <<p>> : p \in SummarizeInputs }
    \cup { << [pattern |-> "Greedy", url |-> "", notes |-> "",
               problems |-> <<ProblemOf("Jump Game")>>,
               summary |-> "Take the best local step.",
               top_problems |-> format_problems(<<ProblemOf("Jump Game")>>)],
              [pattern |-> "Trie", url |-> "", notes |-> "",
               problems |-> <<ProblemOf("Word Search II")>>,
               summary |-> "Share prefixes.",
               top_problems |->
                   format_problems(<<ProblemOf("Word Search II")>>)] >> }

ResourcesInit ==
    /\ ScrapeInit
    /\ NoRun
    /\ fn = "build_resources_rows"
    /\ fn_arg \in {[model |-> DEFAULT_MODEL, patterns |-> ps,
                    outcomes |-> <<o1, o2>>] :
                      ps \in EnrichedLists,
                      o1 \in TipOutcomes, o2 \in TipOutcomes}
    /\ fn_out = << >>
    /\ fn_done = FALSE

ResourcesCall ==
    /\ fn = "build_resources_rows"
    /\ ~fn_done
    /\ fn_out' = build_resources_rows(fn_arg.model, fn_arg.patterns,
                                      fn_arg.outcomes)
    /\ fn_done' = TRUE
    /\ UNCHANGED <<fn, fn_arg, scrapeVars, runVars>>

SpecResources == ResourcesInit /\ [][ResourcesCall]_vars

(***************************************************************************)
(* main.run: scrape, summarize, build the resources rows, write the tabs.  *)
(* A call of the Sheets API is a record [op, title, rows]: op is "get"     *)
(* (spreadsheets().get), "addSheet" (batchUpdate with addSheet), "clear"   *)
(* (values().clear), "update" (values().update) or "format" (batchUpdate   *)
(* with formatting requests).                                              *)
(***************************************************************************)

PROBLEM_HEADERS ==
    <<"Problem", "Difficulty", "URL", "Solved (Me)", "Solved (Friend)">>

\* build_pattern_sheet_rows without the spacer row
build_pattern_sheet_rows_NoSpacer(record, problems) ==
    << <<"Pattern", GetOr(record, "pattern", "")>>,
       <<"URL", GetOr(record, "url", "")>>,
       <<"Summary", GetOr(record, "summary", "")>> >>
    \o (IF GetStr(record, "notes") # ""
        THEN << <<"Notes", record.notes>> >> ELSE << >>)
    \o << <<"Problems", "", "", "", "">>, PROBLEM_HEADERS >>
    \o [i \in 1..Len(problems) |->
           <<GetOr(problems[i], "title", ""),
             GetOr(problems[i], "difficulty", ""),
             GetOr(problems[i], "url", ""), "", "">>]

build_pattern_sheet_rows(record, problems) ==
    << <<"Pattern", GetOr(record, "pattern", "")>>,
       <<"URL", GetOr(record, "url", "")>>,
       <<"Summary", GetOr(record, "summary", "")>> >>
    \o (IF GetStr(record, "notes") # ""
        THEN << <<"Notes", record.notes>> >> ELSE << >>)
    \o << << >>, <<"Problems", "", "", "", "">>, PROBLEM_HEADERS >>
    \o [i \in 1..Len(problems) |->
           <<GetOr(problems[i], "title", ""),
             GetOr(problems[i], "difficulty", ""),
             GetOr(problems[i], "url", ""), "", "">>]

\* the 0-based index of the first row equal to PROBLEM_HEADERS, -1 for None
_find_header_row_index(rows) ==
    LET hits == {i \in 1..Len(rows) : rows[i] = PROBLEM_HEADERS}
    IN  IF hits = {} THEN -1
        ELSE (CHOOSE i \in hits : \A j \in hits : i <= j) - 1

SheetCall(op, title, rows) == [op |-> op, title |-> title, rows |-> rows]

\* the calls of apply_formatting: _get_sheet_id once per request that names
\* the sheet, then the batchUpdate
FormattingCalls(title, rows) ==
    [i \in 1..(IF _find_header_row_index(rows) # -1 THEN 4 ELSE 2) |->
        SheetCall("get", title, << >>)]
    \o <<SheetCall("format", title, << >>)>>

\* title = sanitize_title(record.get("pattern") or "Pattern")
TabTitle(record) ==
    sanitize_title(IF GetStr(record, "pattern") # "" THEN record.pattern
                   ELSE "Pattern")

\* rows = build_pattern_sheet_rows(record, record.get("problems") or [])
TabRows(record) ==
    build_pattern_sheet_rows(record, GetList(record, "problems"))

\* TabCalls with the value update ahead of the clear
TabCalls_UpdateFirst(record, existing, clear) ==
    LET title == TabTitle(record)
        rows == TabRows(record)
    IN  (IF title \notin existing
         THEN <<SheetCall("addSheet", title, << >>)>> ELSE << >>)
        \o <<SheetCall("update", title, rows)>>
        \o (IF clear THEN <<SheetCall("clear", title, << >>)>> ELSE << >>)
        \o FormattingCalls(title, rows)

\* the calls of one iteration of the loop of push_pattern_sheets
TabCalls(record, existing, clear) ==
    LET title == TabTitle(record)
        rows == TabRows(record)
    IN  (IF title \notin existing
         THEN <<SheetCall("addSheet", title, << >>)>> ELSE << >>)
        \o (IF clear THEN <<SheetCall("clear", title, << >>)>> ELSE << >>)
        \o <<SheetCall("update", title, rows)>>
        \o FormattingCalls(title, rows)

\* the calls of push_resources_sheet
ResourcesCalls(rows, existing) ==
    <<SheetCall("get", "Resources", << >>)>>
    \o (IF "Resources" \notin existing
        THEN <<SheetCall("addSheet", "Resources", << >>),
               SheetCall("get", "Resources", << >>)>>
        ELSE << >>)
    \o <<SheetCall("clear", "Resources", << >>),
         SheetCall("update", "Resources", rows),
         SheetCall("format", "Resources", << >>)>>

\* The cell values of a tab are a list of rows, each a list of cells; a
\* cell outside them is empty.
Max(a, b) == IF a > b THEN a ELSE b

\* values().clear with range 'title'!A1: the range is the one cell A1
ValuesClear(grid) ==
    IF Len(grid) >= 1 /\ Len(grid[1]) >= 1
    THEN [grid EXCEPT ![1][1] = ""] ELSE grid

\* values().update with range 'title'!A1 and body {"values": rows}: the
\* values are laid down from A1 on; a cell that rows does not cover keeps
\* what it held
ValuesUpdate(grid, rows) ==
    [r \in 1..Max(Len(grid), Len(rows)) |->
        LET old == IF r <= Len(grid) THEN grid[r] ELSE << >>
            new == IF r <= Len(rows) THEN rows[r] ELSE << >>
        IN  [c \in 1..Max(Len(old), Len(new)) |->
                IF c <= Len(new) THEN new[c] ELSE old[c]]]

\* the spreadsheet after a call that succeeded
ApplyCall(sheet, call) ==
    IF call.op = "addSheet"
    THEN [t \in DOMAIN sheet \cup {call.title} |->
             IF t \in DOMAIN sheet THEN sheet[t] ELSE << >>]
    ELSE IF call.op = "clear"
    THEN [sheet EXCEPT ![call.title] = ValuesClear(@)]
    ELSE IF call.op = "update"
    THEN [sheet EXCEPT ![call.title] = ValuesUpdate(@, call.rows)]
    ELSE sheet

\* the spreadsheet after the first n of calls
ApplyCalls(sheet, calls_made, n) ==
    LET F[i \in 0..n] ==
            IF i = 0 THEN sheet ELSE ApplyCall(F[i - 1], calls_made[i])
    IN  F[n]

\* the summary alone, without the keys of the scraped record
Merged_SummaryOnly(original, summary) == summary

\* dict(original) updated with summary
Merged(original, summary) == summary @@ original

\* what scrape_patterns returns to run
ScrapeReturns ==
    { << >>,
      Pipeline(<<EntryGreedy>>, DEFAULT_BASE_SITE),
      Pipeline(<<EntryTwoPointers, EntryGraphs>>, DEFAULT_BASE_SITE) }

\* rows that an earlier run left in a tab: more rows than the run at hand
\* writes, with the layout of build_pattern_sheet_rows
EarlierRows(name) ==
    build_pattern_sheet_rows(
        [pattern |-> name, url |-> "https://example.org/old",
         summary |-> "An earlier summary.", notes |-> "An earlier note."],
        [i \in 1..12 |->
            [title |-> "Earlier Problem", difficulty |-> "Hard",
             url |-> "https://leetcode.com/problems/earlier-problem/"]])

\* the spreadsheet before the run
Spreadsheets ==
    { NewSpreadsheet,
      [t \in {"Sheet1", "Greedy"} |->
          IF t = "Greedy" THEN EarlierRows("Greedy") ELSE << >>],
      [t \in {"Resources", "Graphs"} |->
          IF t = "Graphs" THEN EarlierRows("Graphs")
          ELSE << <<"Resource", "Type", "Link">> >>] }

\* run is started on some spreadsheet
RunInit ==
    /\ ScrapeInit
    /\ NoCall
    /\ RunIdle
    /\ tabs \in Spreadsheets
    /\ tabs_before = tabs

\* patterns = scrape_patterns(base_url=base_url) and the test of line 35
RunScrape ==
    /\ run_pc = "idle"
    /\ \E ps \in ScrapeReturns :
          /\ scraped' = ps
          /\ IF Len(ps) = 0
             THEN run_pc' = "failed" /\ run_error' = "RuntimeError"
             ELSE run_pc' = "new_summarizer" /\ UNCHANGED run_error
    /\ UNCHANGED <<scrapeVars, fnVars, model, summarized, llm_calls, enriched,
                   resources_rows, existing_titles, tab_index, sheet_calls,
                   sheetVars>>

\* GeminiSummarizer(): ValueError without an API key in the environment
NewSummarizer ==
    /\ run_pc = "new_summarizer"
    /\ \E has_key \in BOOLEAN, m \in ConfiguredModels :
          IF has_key
          THEN model' = m /\ run_pc' = "summarize" /\ UNCHANGED run_error
          ELSE /\ run_pc' = "failed"
               /\ run_error' = "ValueError"
               /\ UNCHANGED model
    /\ UNCHANGED <<scrapeVars, fnVars, scraped, summarized, llm_calls,
                   enriched, resources_rows, existing_titles, tab_index,
                   sheet_calls,
                   sheetVars>>

\* SummarizeNext going on to the next pattern when a pattern fails
SummarizeNext_SkipFailed ==
    /\ run_pc = "summarize"
    /\ Len(summarized) < Len(scraped)
    /\ \E o1 \in CallOutcomes, o2 \in CallOutcomes :
          LET r == _summarize_single(model, scraped[Len(summarized) + 1],
                                     DEFAULT_TEMPERATURE, <<o1, o2>>)
          IN  /\ llm_calls' = llm_calls \o r.calls
              /\ summarized' = Append(summarized, r.value)
    /\ UNCHANGED <<scrapeVars, fnVars, run_pc, scraped, model, enriched,
                   resources_rows, existing_titles, tab_index, sheet_calls,
                   run_error,
                   sheetVars>>

\* one iteration of the loop of summarize_patterns; an exception leaves
\* summarize_patterns and run
SummarizeNext ==
    /\ run_pc = "summarize"
    /\ Len(summarized) < Len(scraped)
    /\ \E o1 \in CallOutcomes, o2 \in CallOutcomes :
          LET r == _summarize_single(model, scraped[Len(summarized) + 1],
                                     DEFAULT_TEMPERATURE, <<o1, o2>>)
          IN  /\ llm_calls' = llm_calls \o r.calls
              /\ IF r.raised
                 THEN /\ run_pc' = "failed"
                      /\ run_error' = r.error.type
                      /\ UNCHANGED summarized
                 ELSE /\ summarized' = Append(summarized, r.value)
                      /\ UNCHANGED <<run_pc, run_error>>
    /\ UNCHANGED <<scrapeVars, fnVars, scraped, model, enriched,
                   resources_rows, existing_titles, tab_index, sheet_calls,
                   sheetVars>>

\* lines 42-49: the merge and build_resources_rows
BuildResources ==
    /\ run_pc = "summarize"
    /\ Len(summarized) = Len(scraped)
    /\ enriched' = [i \in 1..Len(scraped) |->
                       Merged(scraped[i], summarized[i])]
    /\ \E o1 \in TipOutcomes, o2 \in TipOutcomes :
          LET r == build_resources_rows(model, enriched', <<o1, o2>>)
          IN  /\ llm_calls' = llm_calls \o r.calls
              /\ resources_rows' = r.rows
    /\ run_pc' = "push"
    /\ UNCHANGED <<scrapeVars, fnVars, scraped, model, summarized,
                   existing_titles, tab_index, sheet_calls, run_error,
                   sheetVars>>

\* push_pattern_sheets up to its loop: the credentials, then the get that
\* lists the tabs
PushStart ==
    /\ run_pc = "push"
    /\ \/ /\ run_pc' = "failed"
          /\ run_error' = "CredentialsError"
          /\ UNCHANGED <<sheet_calls, existing_titles, tab_index>>
       \/ /\ sheet_calls' = Append(sheet_calls, SheetCall("get", "", << >>))
          /\ \/ /\ run_pc' = "failed"
                /\ run_error' = "HttpError"
                /\ UNCHANGED <<existing_titles, tab_index>>
             \/ /\ existing_titles' = DOMAIN tabs
                /\ tab_index' = 1
                /\ run_pc' = "push_tab"
                /\ UNCHANGED run_error
    /\ UNCHANGED <<scrapeVars, fnVars, scraped, model, summarized, llm_calls,
                   enriched, resources_rows, sheetVars>>

\* PushTab taking the records from the last to the first
PushTab_Reverse ==
    /\ run_pc = "push_tab"
    /\ tab_index <= Len(enriched)
    /\ LET tab_calls == TabCalls(enriched[Len(enriched) + 1 - tab_index],
                                 existing_titles,
                                 clear_first)
       IN  \E issued \in 1..Len(tab_calls), failed \in BOOLEAN :
              /\ failed \/ issued = Len(tab_calls)
              /\ sheet_calls' = sheet_calls \o SubSeq(tab_calls, 1, issued)
              /\ tabs' = ApplyCalls(tabs, tab_calls,
                                    IF failed THEN issued - 1 ELSE issued)
              /\ existing_titles' =
                     IF tab_calls[1].op = "addSheet" /\ (issued > 1 \/ ~failed)
                     THEN existing_titles \cup {tab_calls[1].title}
                     ELSE existing_titles
              /\ IF failed
                 THEN /\ run_pc' = "failed"
                      /\ run_error' = "HttpError"
                      /\ UNCHANGED tab_index
                 ELSE /\ tab_index' = tab_index + 1
                      /\ UNCHANGED <<run_pc, run_error>>
    /\ UNCHANGED <<scrapeVars, fnVars, scraped, model, summarized, llm_calls,
                   enriched, resources_rows, clear_first, tabs_before>>

\* one iteration of the loop of push_pattern_sheets: its calls in order, all
\* of them or up to one that raises HttpError
PushTab ==
    /\ run_pc = "push_tab"
    /\ tab_index <= Len(enriched)
    /\ LET tab_calls == TabCalls(enriched[tab_index], existing_titles,
                                 clear_first)
       IN  \E issued \in 1..Len(tab_calls), failed \in BOOLEAN :
              /\ failed \/ issued = Len(tab_calls)
              /\ sheet_calls' = sheet_calls \o SubSeq(tab_calls, 1, issued)
              /\ tabs' = ApplyCalls(tabs, tab_calls,
                                    IF failed THEN issued - 1 ELSE issued)
              /\ existing_titles' =
                     IF tab_calls[1].op = "addSheet" /\ (issued > 1 \/ ~failed)
                     THEN existing_titles \cup {tab_calls[1].title}
                     ELSE existing_titles
              /\ IF failed
                 THEN /\ run_pc' = "failed"
                      /\ run_error' = "HttpError"
                      /\ UNCHANGED tab_index
                 ELSE /\ tab_index' = tab_index + 1
                      /\ UNCHANGED <<run_pc, run_error>>
    /\ UNCHANGED <<scrapeVars, fnVars, scraped, model, summarized, llm_calls,
                   enriched, resources_rows, clear_first, tabs_before>>

\* push_resources_sheet, after the last tab
PushResources ==
    /\ run_pc = "push_tab"
    /\ tab_index > Len(enriched)
    /\ LET res_calls == IF Len(resources_rows) > 0
                        THEN ResourcesCalls(resources_rows, DOMAIN tabs)
                        ELSE << >>
       IN  \E issued \in 0..Len(res_calls), failed \in BOOLEAN :
              /\ failed \/ issued = Len(res_calls)
              /\ failed => issued > 0
              /\ sheet_calls' = sheet_calls \o SubSeq(res_calls, 1, issued)
              /\ tabs' = ApplyCalls(tabs, res_calls,
                                    IF failed THEN issued - 1 ELSE issued)
              /\ IF failed
                 THEN run_pc' = "failed" /\ run_error' = "HttpError"
                 ELSE run_pc' = "done" /\ UNCHANGED run_error
    /\ UNCHANGED <<scrapeVars, fnVars, scraped, model, summarized, llm_calls,
                   enriched, resources_rows, existing_titles, tab_index,
                   clear_first, tabs_before>>

RunNext ==
    \/ RunScrape
    \/ NewSummarizer
    \/ SummarizeNext
    \/ BuildResources
    \/ PushStart
    \/ PushTab
    \/ PushResources

SpecRun == RunInit /\ [][RunNext]_vars

(***************************************************************************)
(* build_pattern_sheet_rows                                                *)
(***************************************************************************)

\* the longest problems list passed to build_pattern_sheet_rows
MaxSheetProblems == 2

\* records with and without notes and with keys missing; one carries the
\* labels and header cells as its values
SheetRecords ==
    { NoFields,
      [pattern |-> "Greedy", url |-> "https://example.org/greedy",
       summary |-> "Take the best local choice."],
      [pattern |-> "Graphs", url |-> "", summary |-> "Traverse.",
       notes |-> ""],
      [pattern |-> "Trie", url |-> "https://example.org/trie",
       summary |-> "Prefix tree.", notes |-> "Sourced from a mirror."],
      [pattern |-> "Problem", url |-> "URL", summary |-> "Difficulty",
       notes |-> "Notes"] }

\* problems with keys missing; one repeats the first header cells
SheetProblems ==
    { NoFields,
      [title |-> "Jump Game"],
      [title |-> "Gas Station", difficulty |-> "Medium",
       url |-> "https://leetcode.com/problems/gas-station/"],
      [title |-> "Problem", difficulty |-> "Difficulty", url |-> "URL"] }

SheetRowsInit ==
    /\ ScrapeInit
    /\ NoRun
    /\ fn = "build_pattern_sheet_rows"
    /\ fn_arg \in {[record |-> r, problems |-> ps] :
                      r \in SheetRecords,
                      ps \in BoundedSeq(SheetProblems, MaxSheetProblems)}
    /\ fn_out = << >>
    /\ fn_done = FALSE

SheetRowsCall ==
    /\ fn = "build_pattern_sheet_rows"
    /\ ~fn_done
    /\ fn_out' = build_pattern_sheet_rows(fn_arg.record, fn_arg.problems)
    /\ fn_done' = TRUE
    /\ UNCHANGED <<fn, fn_arg, scrapeVars, runVars>>

SpecSheetRows == SheetRowsInit /\ [][SheetRowsCall]_vars

(***************************************************************************)
(* push_pattern_sheets on its own: the records are as deduplication gives  *)
(* them (names not empty, distinct ignoring case), clear_first is either   *)
(* value and resources_rows is empty or not.                               *)
(***************************************************************************)

\* the longest records list passed to push_pattern_sheets
MaxTabs == 2

PushRecord(name, n) ==
    [pattern |-> name, url |-> "https://example.org/" \o slugify(name),
     notes |-> "", summary |-> "Summary of " \o name \o ".",
     top_problems |-> "",
     problems |-> [i \in 1..n |-> ProblemOf("Jump Game")]]

PushRecords ==
    { PushRecord("Greedy", 1), PushRecord("Graphs", 0),
      PushRecord("A/B", 1), PushRecord("AB", 2),
      PushRecord("Resources", 1) }

PushRecordLists ==
    {rs \in BoundedSeq(PushRecords, MaxTabs) :
        /\ Len(rs) > 0
        /\ \A i, j \in 1..Len(rs) :
               i # j => Lower(rs[i].pattern) # Lower(rs[j].pattern)}

PushResourcesRows == { << >>, ResourceRows(StaticHints) }

PushInit ==
    /\ ScrapeInit
    /\ NoCall
    /\ run_pc = "push"
    /\ scraped = << >>
    /\ model = ""
    /\ summarized = << >>
    /\ llm_calls = << >>
    /\ enriched \in PushRecordLists
    /\ resources_rows \in PushResourcesRows
    /\ existing_titles = {}
    /\ tab_index = 0
    /\ sheet_calls = << >>
    /\ run_error = "none"
    /\ clear_first \in BOOLEAN
    /\ tabs \in Spreadsheets
    /\ tabs_before = tabs

PushNext ==
    \/ PushStart
    \/ PushTab
    \/ PushResources

SpecPush == PushInit /\ [][PushNext]_vars

(***************************************************************************)
(* Properties                                                              *)
(***************************************************************************)

FallbackOrder == <<"mirror", "local", "builtin">>

\* the fallback sources asked in the current call, in order
FallbackTrace ==
    SelectSeq(trace, LAMBDA e : e.step \in {"mirror", "local", "builtin"})

\* C1: when the payload and the heading heuristic both give no patterns and
\* fallback is allowed, the fallback sources are asked in the order mirror,
\* local file, built-in set; a later one is asked only if every earlier one
\* gave an empty list; the pool is the list of exactly one of them.
C1_FallbackChain ==
    LET fb == FallbackTrace
    IN  /\ Len(fb) <= 3
        /\ \A i \in 1..Len(fb) : fb[i].step = FallbackOrder[i]
        /\ \A i \in 1..(Len(fb) - 1) : Len(fb[i].data) = 0
        /\ (/\ pc \in {"additional", "done"}
            /\ allow_fallback
            /\ pool_source \notin {"payload", "heuristic"})
           => /\ Len(fb) >= 1
              /\ pool_source = fb[Len(fb)].step
              /\ Len(fb[Len(fb)].data) > 0
              /\ pc = "additional" => patterns = fb[Len(fb)].data
              /\ pc = "done" => patterns = fb[Len(fb)].data \o results

C1_Witness ==
    /\ pc = "additional"
    /\ pool_source = "builtin"
    /\ Len(FallbackTrace) = 3
    /\ patterns = LOCAL_MINIMAL_FALLBACK

\* C2: a call with allow_fallback=True never returns an empty list.
C2_NeverEmpty == (pc = "done" /\ allow_fallback) => Len(returned) > 0

NextStepAfter(step) ==
    CASE step = "primary" -> "extract"
      [] step = "mirror" -> "fallback_local"
      [] step = "local" -> "fallback_builtin"
      [] step = "additional" -> "additional"
      [] OTHER -> "none"

\* C3: no exception leaves scrape_patterns, and a step that met a network
\* error, an error status or an unparsable body gives an empty result and is
\* followed by the next step of the pipeline.
C3_FailuresAbsorbed ==
    /\ [](~raised /\ pc # "raised")
    /\ [][(Len(trace') = Len(trace) + 1 /\ trace'[Len(trace')].failed)
            => /\ ~raised'
               /\ Len(trace'[Len(trace')].data) = 0
               /\ trace'[Len(trace')].step = "primary" => html' = NoHtml
               /\ pc' = NextStepAfter(trace'[Len(trace')].step)]_vars

C3_Witness ==
    /\ pc = "done"
    /\ \A s \in {"primary", "mirror", "local", "additional"} :
          \E i \in 1..Len(trace) : trace[i].step = s /\ trace[i].failed

\* C4: every record that scrape_patterns returns has a non-empty pattern name
\* and a non-empty problems list.
C4_ReturnedRecordsValid ==
    \A i \in 1..Len(returned) :
        returned[i].pattern # "" /\ Len(returned[i].problems) > 0

C4_Witness ==
    /\ pc = "done"
    /\ Len(returned) > 0
    /\ \E i \in 1..Len(patterns) :
          LET n == normalize_pattern(patterns[i], base_url)
          IN  n.pattern = "" \/ Len(n.problems) = 0

\* the indices of the records that are the first with their name, ignoring
\* case
FirstOccurrences(ps) ==
    {i \in 1..Len(ps) :
        \A j \in 1..(i - 1) : Lower(ps[j].pattern) # Lower(ps[i].pattern)}

\* the k-th smallest element of a set of numbers
KthOf(S, k) == CHOOSE i \in S : Cardinality({j \in S : j <= i}) = k

\* C5: dedupe_patterns returns the subsequence of its input made of the first
\* record of every name (names compared ignoring case), each unchanged; no
\* two returned names are equal ignoring case.
C5_DedupeKeepsFirst ==
    (fn = "dedupe_patterns" /\ fn_done) =>
        LET ps == fn_arg.patterns
            firsts == FirstOccurrences(ps)
        IN  /\ Len(fn_out) = Cardinality(firsts)
            /\ \A k \in 1..Len(fn_out) : fn_out[k] = ps[KthOf(firsts, k)]
            /\ \A k, m \in 1..Len(fn_out) :
                  k # m => Lower(fn_out[k].pattern) # Lower(fn_out[m].pattern)

C5_Witness ==
    /\ fn = "dedupe_patterns"
    /\ fn_done
    /\ Len(fn_arg.patterns) = 3
    /\ fn_arg.patterns[1].pattern = "Greedy"
    /\ fn_arg.patterns[2].pattern = "Trie"
    /\ fn_arg.patterns[3].pattern = "GREEDY"
    /\ fn_arg.patterns[3].problems # fn_arg.patterns[1].problems
    /\ fn_out = <<fn_arg.patterns[1], fn_arg.patterns[2]>>

IsPrefix(s, t) == Len(s) <= Len(t) /\ SubSeq(t, 1, Len(s)) = s

EnrichDone == fn = "enrich_problem_lists" /\ fn_done

\* C6: enrich_problem_lists keeps the list of patterns (length, order, every
\* field but problems), and every pattern's problems list before the call is
\* a prefix of its problems list after the call.
C6_EnrichOnlyAppends ==
    EnrichDone =>
        /\ Len(fn_out) = Len(fn_arg.patterns)
        /\ \A i \in 1..Len(fn_out) :
              /\ fn_out[i].pattern = fn_arg.patterns[i].pattern
              /\ fn_out[i].url = fn_arg.patterns[i].url
              /\ fn_out[i].notes = fn_arg.patterns[i].notes
              /\ IsPrefix(fn_arg.patterns[i].problems, fn_out[i].problems)

C6_Witness ==
    /\ EnrichDone
    /\ Len(fn_arg.patterns) = 2
    /\ \E i \in 1..2 :
          /\ Len(fn_arg.patterns[i].problems) >= 2
          /\ Len(fn_out[i].problems) > Len(fn_arg.patterns[i].problems)

\* the library titles, ignoring case, that are not among the titles of ps
MissingLibraryTitles(name, ps) ==
    {Lower(PROBLEM_LIBRARY[name][j].title) :
        j \in 1..Len(PROBLEM_LIBRARY[name])}
    \ {Lower(ps[i].title) : i \in 1..Len(ps)}

\* C7: a pattern whose name is a key of the library and that has e problems,
\* e < min_count, ends with min(min_count, e + k) problems, k the number of
\* library titles (ignoring case) not among its titles.
C7_EnrichCount ==
    EnrichDone =>
        \A i \in 1..Len(fn_out) :
            LET p == fn_arg.patterns[i]
                e == Len(p.problems)
            IN  (p.pattern \in DOMAIN PROBLEM_LIBRARY /\ e < fn_arg.min_count)
                => Len(fn_out[i].problems)
                   = Min(fn_arg.min_count,
                         e + Cardinality(MissingLibraryTitles(p.pattern,
                                                              p.problems)))

C7_Witness ==
    /\ EnrichDone
    /\ fn_arg.min_count = 8
    /\ Len(fn_arg.patterns) = 1
    /\ fn_arg.patterns[1].pattern = "Two Pointers"
    /\ Len(fn_arg.patterns[1].problems) = 2
    /\ Len(PROBLEM_LIBRARY["Two Pointers"]) = 8
    /\ Len(fn_out[1].problems) = 8

\* C8: a pattern that has min_count or more problems before the call has the
\* same problems list after it.
C8_FullPatternUntouched ==
    EnrichDone =>
        \A i \in 1..Len(fn_out) :
            Len(fn_arg.patterns[i].problems) >= fn_arg.min_count
            => fn_out[i].problems = fn_arg.patterns[i].problems

\* C9: every problem appended by enrich_problem_lists has a title that
\* differs, ignoring case, from the title of every problem before it in the
\* resulting list.
C9_EnrichNoDuplicateTitle ==
    EnrichDone =>
        \A i \in 1..Len(fn_out) :
            \A j \in (Len(fn_arg.patterns[i].problems) + 1)
                        ..Len(fn_out[i].problems) :
                \A m \in 1..(j - 1) :
                    Lower(fn_out[i].problems[m].title)
                    # Lower(fn_out[i].problems[j].title)

C9_Witness ==
    /\ EnrichDone
    /\ Len(fn_arg.patterns) = 1
    /\ fn_arg.patterns[1].pattern = "Two Pointers"
    /\ Len(fn_arg.patterns[1].problems) = 1
    /\ fn_arg.patterns[1].problems[1].title = "3sum"
    /\ PROBLEM_LIBRARY["Two Pointers"][2].title = "3Sum"
    /\ Len(fn_out[1].problems) > 2

RawTitle(p) ==
    OrStr(GetStr(p, "title"), GetStr(p, "name"), GetStr(p, "question"), "")

RawDifficulty(p) ==
    OrStr(GetStr(p, "difficulty"), GetStr(p, "level"), GetStr(p, "tier"), "")

RawUrl(p) ==
    OrStr(GetStr(p, "url"), GetStr(p, "link"), GetStr(p, "leetcode_url"), "")

\* C10: normalize_problems returns one record per input entry, in input
\* order, each with a non-empty title ("Unknown Problem" when the entry has
\* none), a non-empty difficulty ("Unknown" when absent) and a non-empty url
\* (built from the slug of the title when the entry has none).
C10_NormalizeKeepsAll ==
    (fn = "normalize_problems" /\ fn_done) =>
        /\ Len(fn_out) = Len(fn_arg.problems)
        /\ \A i \in 1..Len(fn_out) :
              LET p == fn_arg.problems[i]
                  r == fn_out[i]
              IN  /\ r.title # "" /\ r.difficulty # "" /\ r.url # ""
                  /\ r.title = IF RawTitle(p) = "" THEN "Unknown Problem"
                               ELSE RawTitle(p)
                  /\ r.difficulty = IF RawDifficulty(p) = "" THEN "Unknown"
                                    ELSE RawDifficulty(p)
                  /\ r.url = IF RawUrl(p) = ""
                             THEN "https://leetcode.com/problems/"
                                  \o slugify(r.title) \o "/"
                             ELSE RawUrl(p)

C10_Witness ==
    /\ fn = "normalize_problems"
    /\ fn_done
    /\ Len(fn_arg.problems) = 3
    /\ fn_arg.problems[1] = [slug |-> "no-title"]
    /\ fn_arg.problems[2] = [name |-> "3Sum!! Two Pointers",
                             level |-> "Medium"]
    /\ fn_out[1] = [title |-> "Unknown Problem", difficulty |-> "Unknown",
                    url |-> "https://leetcode.com/problems/unknown-problem/"]
    /\ fn_out[2].url = "https://leetcode.com/problems/3sum-two-pointers/"

\* C11: slugify applied to its own result gives that result again, and the
\* result holds only the characters a-z, 0-9 and hyphen, with no hyphen at
\* its start, none at its end and no two hyphens next to each other.
C11_SlugifyIdempotent ==
    (fn = "slugify" /\ fn_done) =>
        LET r == fn_out[1]
        IN  /\ slugify(r) = r
            /\ \A i \in 1..Len(r) : Ch(r, i) \in SlugChars \cup {"-"}
            /\ Len(r) > 0 => Ch(r, 1) # "-" /\ Ch(r, Len(r)) # "-"
            /\ \A i \in 1..(Len(r) - 1) : ~(Ch(r, i) = "-" /\ Ch(r, i + 1) = "-")

C11_Witness ==
    /\ fn = "slugify"
    /\ fn_done
    /\ fn_arg.value = "-B !"
    /\ fn_out = <<"b">>

\* C12: sanitize_title returns a non-empty string of at most 90 characters
\* holding none of / \ ? * [ ]; a title that is empty or holds only
\* whitespace, or only those characters, gives "Pattern".
C12_SanitizedTitle ==
    (fn = "sanitize_title" /\ fn_done) =>
        LET t == fn_arg.title
            r == fn_out[1]
        IN  /\ r # ""
            /\ Len(r) <= 90
            /\ \A i \in 1..Len(r) : Ch(r, i) \notin Banned
            /\ ((\A i \in 1..Len(t) : Ch(t, i) \in Whitespace)
                \/ (\A i \in 1..Len(t) : Ch(t, i) \in Banned))
               => r = "Pattern"

C12_Witness ==
    /\ fn = "sanitize_title"
    /\ fn_done
    /\ fn_arg.title = TitlePad \o "a/a"
    /\ Len(fn_arg.title) = 92
    /\ fn_out[1] = TitlePad \o "a"

\* C13: when the base page carries a payload with the one pattern "Two
\* Pointers" of two problems and the additional sources give nothing,
\* scrape_patterns returns one record, named "Two Pointers", with 8 problems
\* of which the first two are the payload's two in payload order, and no
\* fallback source is asked.
C13_EndToEndTwoPointers ==
    (/\ pc = "done"
     /\ html.script = "json"
     /\ html.next_data = PayloadTwoPointers
     /\ results = << >>)
    => /\ Len(returned) = 1
       /\ returned[1].pattern = "Two Pointers"
       /\ Len(returned[1].problems) = 8
       /\ returned[1].problems[1]
              = [title |-> "3sum", difficulty |-> "Medium",
                 url |-> "https://leetcode.com/problems/3sum/"]
       /\ returned[1].problems[2]
              = [title |-> "Sort Colors", difficulty |-> "Medium",
                 url |-> "https://leetcode.com/problems/sort-colors/"]
       /\ FallbackTrace = << >>

C13_Witness ==
    /\ pc = "done"
    /\ allow_fallback
    /\ html.script = "json"
    /\ html.next_data = PayloadTwoPointers
    /\ Len(trace) = 3
    /\ results = << >>
    /\ Len(EntryTwoPointers.problems) = 2
    /\ Len(returned[1].problems) = 8

\* C14: the url of the record made by normalize_pattern is the entry's url
\* field, or else its link field, whenever one of them is non-empty, whatever
\* the other fields are; an entry without both and with a name gets the base
\* url, a slash and the slug of the name.
C14_ExplicitUrlWins ==
    (fn = "normalize_pattern" /\ fn_done) =>
        LET e == fn_arg.entry
            explicit == IF GetStr(e, "url") # "" THEN GetStr(e, "url")
                        ELSE GetStr(e, "link")
            r == fn_out[1]
        IN  /\ explicit # "" => r.url = explicit
            /\ (explicit = "" /\ r.pattern # "")
               => r.url = RStripChars(fn_arg.base_url, {"/"}) \o "/"
                          \o slugify(r.pattern)

AdditionalTrace == SelectSeq(trace, LAMBDA e : e.step = "additional")

FirstTagName(q) == TagNames(q)[1]

\* C16: extract_patterns_from_next_questions returns patterns in which every
\* question found in the payload is listed under exactly one pattern, the one
\* named after its first tag ("General" for a question without tags); no two
\* patterns have the same name and every pattern's notes name the source url.
C16_GroupByFirstTag ==
    (fn = "extract_patterns_from_next_questions" /\ fn_done) =>
        LET qs == CollectNode(fn_arg.next_data, fn_arg.source_url)
            ps == fn_out.value
        IN  /\ ~fn_out.raised
            /\ \A i \in 1..Len(qs) :
                  \A g \in 1..Len(ps) :
                      (\E k \in 1..Len(ps[g].problems) :
                           ps[g].problems[k] = qs[i])
                      <=> ps[g].pattern = FirstTagName(qs[i])
            /\ \A i \in 1..Len(qs) :
                  \E g \in 1..Len(ps) : ps[g].pattern = FirstTagName(qs[i])
            /\ \A g, h \in 1..Len(ps) :
                  g # h => ps[g].pattern # ps[h].pattern
            /\ \A g \in 1..Len(ps) :
                  ps[g].notes = "Sourced from " \o fn_arg.source_url

\* C17: for one prompt _generate_with_fallback calls the model once or
\* twice, first under the configured identifier; the second call is made only
\* after a first call that failed with a not-found error (status 404 or
\* NOT_FOUND in the message), for the same prompt and under another
\* identifier (the configured one with "-latest" appended, the default one
\* when it already ends so); every other failure of the first call and every
\* failure of the second leaves the function as it is, with no further call.
C17_RetryOnceOnNotFound ==
    (fn = "_generate_with_fallback" /\ fn_done) =>
        LET o == fn_arg.outcomes
            calls_made == fn_out.calls
        IN  /\ Len(calls_made) \in {1, 2}
            /\ calls_made[1].model = fn_arg.model
            /\ Len(calls_made) = 2
               => /\ o[1].kind # "ok"
                  /\ o[1].err.code = 404 \/ o[1].err.not_found_in_message
                  /\ calls_made[2].model # fn_arg.model
                  /\ calls_made[2].model
                     \in {fn_arg.model \o "-latest", "gemini-2.0-flash"}
                  /\ calls_made[2].contents = calls_made[1].contents
                  /\ fn_out.raised <=> o[2].kind # "ok"
                  /\ fn_out.raised => fn_out.error = o[2].err
                  /\ ~fn_out.raised => fn_out.response = o[2].response
            /\ (/\ o[1].kind # "ok"
                /\ o[1].err.code # 404
                /\ ~o[1].err.not_found_in_message)
               => /\ Len(calls_made) = 1
                  /\ fn_out.raised
                  /\ fn_out.error = o[1].err
            /\ o[1].kind = "ok"
               => /\ Len(calls_made) = 1
                  /\ ~fn_out.raised
                  /\ fn_out.response = o[1].response

C17_Witness ==
    /\ fn = "_generate_with_fallback"
    /\ fn_done
    /\ fn_arg.model = "gemini-1.5-pro-latest"
    /\ fn_arg.outcomes[1].err.code = 404
    /\ fn_arg.outcomes[2].err.code = 404
    /\ Len(fn_out.calls) = 2
    /\ fn_out.calls[2].model = "gemini-2.0-flash"
    /\ fn_out.raised

\* the response that _summarize_single reads: that of the last call made
ResponseRead == fn_arg.outcomes[Len(fn_out.calls)].response

\* C18: when the model call gives a response without text (no text
\* attribute, a null, empty or whitespace-only text), _summarize_single
\* raises nothing and returns a record whose summary is the placeholder built
\* from the pattern name; no returned summary is empty.
C18_PlaceholderSummary ==
    (fn = "_summarize_single" /\ fn_done) =>
        LET answered == fn_arg.outcomes[Len(fn_out.calls)].kind = "ok"
            name == IF GetStr(fn_arg.pattern, "pattern") # ""
                    THEN GetStr(fn_arg.pattern, "pattern")
                    ELSE "Unknown Pattern"
        IN  /\ (/\ answered
                /\ \/ ~ResponseRead.has_text
                   \/ ResponseRead.text_null
                   \/ \A i \in 1..Len(ResponseRead.text) :
                          Ch(ResponseRead.text, i) \in Whitespace)
               => /\ ~fn_out.raised
                  /\ fn_out.value.summary
                     = name \o ": core idea summary unavailable; "
                            \o "review pattern notes."
            /\ ~fn_out.raised => fn_out.value.summary # ""

\* the outcome of the tips call that build_resources_rows ends with
TipsOutcome == fn_arg.outcomes[Len(fn_out.calls)]

\* C20: build_resources_rows raises nothing whatever the tips call does; its
\* rows start with the header row, the five resource rows, the spacer and the
\* two hint headers and the nine static hints, in that order; every row after
\* them is a generated tip, and there is none when the call failed or gave
\* no text, a null text or an empty text.
C20_ResourcesRowsAlways ==
    (fn = "build_resources_rows" /\ fn_done) =>
        LET rows == fn_out.rows
        IN  /\ ~fn_out.raised
            /\ Len(StaticResources) = 5 /\ Len(StaticHints) = 9
            /\ Len(rows) >= 18
            /\ rows[1] = <<"Resources", "Type", "Link", "Notes">>
            /\ \A i \in 1..5 : rows[1 + i] = StaticResources[i]
            /\ rows[7] = << >>
            /\ rows[8] = <<"Techniques & Hints">>
            /\ rows[9] = <<"Hint">>
            /\ \A i \in 1..9 : rows[9 + i] = <<StaticHints[i]>>
            /\ \A i \in 19..Len(rows) :
                  /\ Len(rows[i]) = 1
                  /\ rows[i][1] # ""
            /\ (\/ TipsOutcome.kind # "ok"
                \/ ~TipsOutcome.response.has_text
                \/ TipsOutcome.response.text_null
                \/ TipsOutcome.response.text = "")
               => Len(rows) = 18

C20_Witness ==
    /\ fn = "build_resources_rows"
    /\ fn_done
    /\ Len(fn_out.calls) = 2
    /\ TipsOutcome.kind = "ok"
    /\ TipsOutcome.response.text_null
    /\ Len(fn_out.rows) = 18

\* C19: a call of the Sheets API is issued only after scraping returned at
\* least one pattern and every pattern has its summary; a run whose scraping
\* returned no pattern ends in an error with no call of the model, and a run
\* in which the summarization of a pattern failed ends in that error with no
\* call of the Sheets API.
C19_NoSheetCallBeforeSummaries ==
    /\ Len(sheet_calls) > 0
       => /\ Len(scraped) > 0
          /\ Len(summarized) = Len(scraped)
          /\ \A i \in 1..Len(scraped) :
                /\ summarized[i].pattern = scraped[i].pattern
                /\ summarized[i].summary # ""
    /\ (run_pc # "idle" /\ Len(scraped) = 0)
       => /\ run_pc = "failed"
          /\ run_error = "RuntimeError"
          /\ Len(llm_calls) = 0
          /\ Len(sheet_calls) = 0
    /\ Len(summarized) < Len(scraped)
       => /\ Len(sheet_calls) = 0
          /\ run_pc \in {"new_summarizer", "summarize", "failed"}

C19_Witness ==
    /\ run_pc = "failed"
    /\ Len(scraped) = 2
    /\ Len(summarized) = 1
    /\ Len(llm_calls) = 3
    /\ run_error = "ClientError"
    /\ Len(sheet_calls) = 0

\* C21: every HTTP request of the scraper (the base page, the fallback
\* mirror, each additional source) carries the User-Agent header built in
\* fetch_html and a timeout of 30 seconds
C21_RequestsCarryUserAgent ==
    \A i \in 1..Len(requests) :
        /\ requests[i].user_agent = FetchHtmlUserAgent
        /\ requests[i].timeout = 30

\* the indexes of the value updates among the calls made so far
UpdateCalls == {i \in 1..Len(sheet_calls) : sheet_calls[i].op = "update"}

\* C22: records with names distinct ignoring case are written to pairwise
\* distinct tabs, none of them the Resources tab: no two value updates of
\* one call of push_pattern_sheets (those of the pattern tabs and that of
\* the Resources tab) go to the same tab, so none overwrites another
C22_OneTabPerPattern ==
    \A i, j \in UpdateCalls :
        i # j => sheet_calls[i].title # sheet_calls[j].title

\* a row without the empty cells at its end
TrimRow(row) ==
    LET filled == {c \in 1..Len(row) : row[c] # ""}
    IN  SubSeq(row, 1, IF filled = {} THEN 0
                       ELSE CHOOSE c \in filled : \A d \in filled : d <= c)

\* the values of a tab as values().get gives them: no empty cells at the
\* end of a row, no empty rows at the end
Values(grid) ==
    LET rows == [r \in 1..Len(grid) |-> TrimRow(grid[r])]
        filled == {r \in 1..Len(rows) : Len(rows[r]) > 0}
    IN  SubSeq(rows, 1, IF filled = {} THEN 0
                        ELSE CHOOSE r \in filled : \A q \in filled : q <= r)

\* C23: once push_pattern_sheets (clear_first=True, as run calls it) has
\* written a record to its tab, the cell values of the tab are exactly the
\* rows built for the record, whatever the tab held before
C23_FullOverwrite ==
    (run_pc = "push_tab" /\ tab_index >= 2 /\ clear_first) =>
        LET record == enriched[tab_index - 1]
        IN  Values(tabs[TabTitle(record)]) = Values(TabRows(record))

\* the place of a call in the calls of one tab: create, clear, value
\* update, formatting (the gets of apply_formatting and its batchUpdate)
CallRank(op) ==
    IF op = "addSheet" THEN 1
    ELSE IF op = "clear" THEN 2
    ELSE IF op = "update" THEN 3
    ELSE 4

\* C24: the calls that push_pattern_sheets issues for one pattern tab come
\* in the order create, clear, value update, formatting; addSheet is issued
\* only for a title that is neither a tab at the start of the call nor
\* created earlier in the call, so no title is created twice; with
\* clear_first the clear of the tab precedes its value update
C24_TabCallOrder ==
    [][(run_pc = "push_tab" /\ tab_index <= Len(enriched)) =>
          LET before == Len(sheet_calls)
              new == SubSeq(sheet_calls', before + 1, Len(sheet_calls'))
          IN  /\ \A i, j \in 1..Len(new) :
                     i < j => CallRank(new[i].op) <= CallRank(new[j].op)
              /\ \A j \in 1..Len(new) :
                     new[j].op = "addSheet" =>
                         /\ new[j].title \notin DOMAIN tabs_before
                         /\ \A i \in 1..(before + j - 1) :
                                ~(sheet_calls'[i].op = "addSheet"
                                  /\ sheet_calls'[i].title = new[j].title)
              /\ \A j \in 1..Len(new) :
                     (clear_first /\ new[j].op = "update") =>
                         \E i \in 1..(j - 1) :
                             /\ new[i].op = "clear"
                             /\ new[i].title = new[j].title]_vars

\* a tab that did not exist was created, cleared, written and formatted
C24_Witness ==
    \E i \in 1..Len(sheet_calls) :
        /\ i + 3 <= Len(sheet_calls)
        /\ sheet_calls[i].op = "addSheet"
        /\ sheet_calls[i].title # "Resources"
        /\ sheet_calls[i + 1].op = "clear"
        /\ sheet_calls[i + 2].op = "update"
        /\ sheet_calls[i + 2].title = sheet_calls[i].title
        /\ \E j \in (i + 3)..Len(sheet_calls) :
               /\ sheet_calls[j].op = "format"
               /\ sheet_calls[j].title = sheet_calls[i].title

\* the pattern a call of the model is made for: its place in the scraped
\* list, or one more than the length of the list for the resource tips
PromptIndex(call) ==
    LET n == Len(scraped)
        of == {i \in 1..n :
                  IsPrefix("You are summarizing a LeetCode pattern for a "
                           \o "study sheet.\nPattern: "
                           \o scraped[i].pattern \o "\n", call.contents)}
    IN  IF of = {} THEN n + 1 ELSE CHOOSE i \in of : TRUE

\* the tab a call of the Sheets API is made for: 0 for the get that lists
\* the tabs, the place of the record in the list for its tab, one more than
\* the length of the list for the Resources tab
TabIndexOf(call) ==
    LET n == Len(enriched)
        of == {i \in 1..n : call.title = TabTitle(enriched[i])}
    IN  IF call.title = "" THEN 0
        ELSE IF of = {} THEN n + 1
        ELSE CHOOSE i \in of : TRUE

\* pidx and tidx give the pattern and the tab of each call made so far
C25_OrderOf(pidx, tidx) ==
    LET n == Len(scraped)
    IN  /\ \A a, b \in 1..Len(llm_calls) : a < b => pidx[a] <= pidx[b]
        /\ \A k \in 1..Len(llm_calls) :
               /\ Len(summarized) >= Min(pidx[k], n + 1) - 1
               /\ \A i \in 1..(pidx[k] - 1) :
                      \E a \in 1..(k - 1) : pidx[a] = i
               /\ Cardinality({a \in 1..Len(llm_calls) :
                                  pidx[a] = pidx[k]}) <= 2
        /\ sheet_calls # << >> => Len(summarized) = n /\ Len(enriched) = n
        /\ \A a, b \in 1..Len(sheet_calls) : a < b => tidx[a] <= tidx[b]
        /\ \A k \in 1..Len(sheet_calls) :
               \A i \in 1..(tidx[k] - 1) :
                   \E a \in 1..(k - 1) :
                       tidx[a] = i /\ sheet_calls[a].op = "format"
        /\ \A k \in 1..Len(sheet_calls) :
               tidx[k] = n + 1 => sheet_calls[k].title = "Resources"

C25_Order ==
    \A pidx \in {[k \in 1..Len(llm_calls) |-> PromptIndex(llm_calls[k])]},
       tidx \in {[k \in 1..Len(sheet_calls) |-> TabIndexOf(sheet_calls[k])]} :
        C25_OrderOf(pidx, tidx)

\* C25: the run is sequential and ordered: the model is called for the
\* patterns in list order, the calls for pattern i (a retry included) made
\* and answered before those for pattern i+1; the resource-tips call comes
\* after all summaries; then the tabs are written in list order, all calls
\* of tab i before those of tab i+1, the Resources tab last; no call of the
\* model follows a call of the Sheets API
C25_SequentialRun ==
    /\ []C25_Order
    /\ [][sheet_calls # << >> => llm_calls' = llm_calls]_vars

\* a run of two patterns with a retry that wrote both tabs and Resources
C25_Witness ==
    /\ run_pc = "done"
    /\ Len(scraped) = 2
    /\ Len(llm_calls) >= 4
    /\ \E k \in 1..Len(sheet_calls) :
           sheet_calls[k].op = "update" /\ sheet_calls[k].title = "Resources"

\* C26: the merge in run pairs every pattern with its own summary: there
\* is one summary per scraped pattern, in order; the merged list is as long
\* as the scraped list and its record i keeps the pattern name, url, notes
\* and problems of scraped record i and carries the summary and top_problems
\* made from that record
C26_MergePairsOwnSummary ==
    /\ Len(summarized) <= Len(scraped)
    /\ \A i \in 1..Len(summarized) :
           /\ summarized[i].pattern = scraped[i].pattern
           /\ summarized[i].top_problems
                  = format_problems(scraped[i].problems)
    /\ run_pc \in {"push", "push_tab", "done"} =>
           /\ Len(summarized) = Len(scraped)
           /\ Len(enriched) = Len(scraped)
           /\ \A i \in 1..Len(enriched) :
                  /\ GetStr(enriched[i], "pattern") = scraped[i].pattern
                  /\ GetStr(enriched[i], "url") = scraped[i].url
                  /\ GetStr(enriched[i], "notes") = GetStr(scraped[i], "notes")
                  /\ GetList(enriched[i], "problems") = scraped[i].problems
                  /\ GetStr(enriched[i], "summary") = summarized[i].summary
                  /\ GetStr(enriched[i], "summary") # ""
                  /\ GetStr(enriched[i], "top_problems")
                         = summarized[i].top_problems

\* two patterns were merged with summaries that differ
C26_Witness ==
    /\ run_pc = "push"
    /\ Len(enriched) = 2
    /\ enriched[1].summary # enriched[2].summary
    /\ enriched[1].top_problems # enriched[2].top_problems
    /\ Len(enriched[1].problems) > 0

\* the list that the payload of a page yields, << >> when the page has no
\* payload, one that is not JSON or one without such a list
PayloadList(h) ==
    IF h.script = "json" THEN extract_patterns_from_next_data(h.next_data)
    ELSE << >>

\* C27: in scrape_patterns the payload wins over the heading heuristic: when
\* the payload yields a non-empty list whose items all carry a name-like key
\* and a problems or questions key, the primary pool is exactly that list;
\* the heuristic is applied only when the payload is absent, unparsable or
\* yields no such list
C27_PayloadPrecedence ==
    [][pc = "extract" =>
          IF Len(PayloadList(html)) > 0
          THEN /\ patterns' = PayloadList(html)
               /\ LooksLikeEntries(patterns')
               /\ pool_source' = "payload"
          ELSE /\ patterns' = IF html.text_empty THEN << >>
                              ELSE extract_patterns_from_html(html)
               /\ pool_source' \in {"heuristic", "none"}]_vars

\* the page had a payload with a pattern list and headings with list items,
\* and the pool was taken from the payload
C27_Witness ==
    /\ pc = "additional"
    /\ pool_source = "payload"
    /\ patterns = <<EntryTwoPointers>>
    /\ Len(extract_patterns_from_html(html)) > 0

SheetRowsDone == fn = "build_pattern_sheet_rows" /\ fn_done

\* C28: the rows of build_pattern_sheet_rows hold the header row
\* PROBLEM_HEADERS exactly once; before it come the labeled rows (Pattern,
\* URL, Summary, and Notes when the record has notes), one empty spacer row
\* and the Problems title row; after it comes one row per problem in input
\* order, of five cells, the last two empty; so _find_header_row_index gives
\* the index of the header row, never None
C28_SheetRowsLayout ==
    SheetRowsDone =>
        LET rows == fn_out
            record == fn_arg.record
            problems == fn_arg.problems
            labeled == IF GetStr(record, "notes") # "" THEN 4 ELSE 3
            header == labeled + 3
        IN  /\ Len(rows) = header + Len(problems)
            /\ {i \in 1..Len(rows) : rows[i] = PROBLEM_HEADERS} = {header}
            /\ _find_header_row_index(rows) = header - 1
            /\ rows[1] = <<"Pattern", GetStr(record, "pattern")>>
            /\ rows[2] = <<"URL", GetStr(record, "url")>>
            /\ rows[3] = <<"Summary", GetStr(record, "summary")>>
            /\ labeled = 4 => rows[4] = <<"Notes", record.notes>>
            /\ {i \in 1..header : rows[i] = << >>} = {labeled + 1}
            /\ rows[labeled + 2] = <<"Problems", "", "", "", "">>
            /\ \A k \in 1..Len(problems) :
                   /\ Len(rows[header + k]) = 5
                   /\ rows[header + k][1] = GetStr(problems[k], "title")
                   /\ rows[header + k][2] = GetStr(problems[k], "difficulty")
                   /\ rows[header + k][3] = GetStr(problems[k], "url")
                   /\ rows[header + k][4] = ""
                   /\ rows[header + k][5] = ""

\* rows were built for a record with notes and two problems, one of them
\* repeating the first cells of the header
C28_Witness ==
    /\ SheetRowsDone
    /\ GetStr(fn_arg.record, "notes") # ""
    /\ Len(fn_arg.problems) = 2
    /\ fn_arg.problems[1] # fn_arg.problems[2]
    /\ \E k \in 1..2 : GetStr(fn_arg.problems[k], "title") = "Problem"

\* C29: scrape_patterns never modifies the module-level built-in set
\* LOCAL_MINIMAL_FALLBACK: after any sequence of calls it has the length and
\* the entries it had at import time
C29_BuiltinSetUnchanged == LOCAL_MINIMAL_FALLBACK = MinimalFallbackLiteral

\* the questions that the walk of _collect_questions finds in the payload
\* of a call, and the patterns that the regrouping makes of them
QuestionsFound == CollectNode(fn_arg.next_data, fn_arg.source_url)

Regrouped == GroupedPatterns(QuestionsFound, fn_arg.source_url)

\* the regrouping of lines 797-815 loses none of the questions found
C30_RegroupingKeepsAll ==
    \A i \in 1..Len(QuestionsFound) :
        \E g \in 1..Len(Regrouped) :
            \E k \in 1..Len(Regrouped[g].problems) :
                Regrouped[g].problems[k] = QuestionsFound[i]

\* C30: no question collected from an additional source is lost by the
\* regrouping: extract_patterns_from_next_questions returns, and every
\* question that _collect_questions finds is in the problems of at least
\* one returned pattern, also a question whose tags are dicts without a
\* name, slug or title
C30_NoQuestionLost ==
    (fn = "extract_patterns_from_next_questions" /\ fn_done) =>
        /\ C30_RegroupingKeepsAll
        /\ ~fn_out.raised
        /\ \A i \in 1..Len(QuestionsFound) :
               \E g \in 1..Len(fn_out.value) :
                   \E k \in 1..Len(fn_out.value[g].problems) :
                       fn_out.value[g].problems[k] = QuestionsFound[i]

====
